---- MODULE Spec2Model ----
(***************************************************************************)
(* Model of the reveal-interact session API (api/packages/arch):          *)
(* the request handlers of architecture.ts over the four document stores, *)
(* with the store semantics of the three backends found in the sources    *)
(* (in-memory map, PostgreSQL documents table, Cloudflare KV).            *)
(***************************************************************************)
EXTENDS Integers, Sequences, FiniteSets, TLC

\* ---------------------------------------------------------------- bounds
\* number of generateId() calls in one behaviour
MaxIds == 4
\* number of documents a history-retaining backend keeps under one key
MaxHist == 2
\* number of messages handed to one socket in one behaviour
MaxSent == 1

\* number of list calls handed to the backend in one behaviour
MaxList == 2

\* number of sockets a client creates and of timers it sets in one behaviour
MaxSockets == 4
MaxTimers == 3

\* config.maxReconnectAttempts (10 by default), scaled down
maxReconnectAttempts == 2

\* ---------------------------------------------------------------- values
\* the identifiers generateId() hands out, in the order it hands them out
IdName(i) == ToString(i)

IdSet == {IdName(i) : i \in 1..MaxIds}

\* tokens whose signature verifies against PUBLIC_KEY
SignedTokens == {"tA", "tB"}

\* a token string that verifyToken rejects
BadToken == "bad"

\* the x-session-token header is absent
NoToken == "notoken"

\* the uid cookie is absent
NoUid == "nouid"

\* a uid cookie value that no handler ever issued
Forged == "forged"

\* a sessionUid under which nothing was ever stored
NoSuch == "nosuch"

Callers == {"c1", "c2"}

Backends == {"memory", "relational", "kv"}

\* the page a setState request moves the session to (newSession stores "0")
Pages == {"1"}

\* the pages that concurrent setState requests move the session to
ConcPages == {"0", "1"}

States == {"voting"}

\* the page path parameter of a react request
ReactPages == {"0"}

Reactions == {"thumbsup"}

ApiUrls == {"https://a"}

WebUiUrls == {"https://w"}

WsUrls == {"wss://w"}

\* every string a store key can be
KeySpace == SignedTokens \cup IdSet \cup {NoSuch}

NoCall == [op |-> "none", cred |-> NoToken, cookie |-> NoUid,
           sid |-> NoSuch, arg |-> <<>>, err |-> "", ret |-> <<>>]

\* the sockets the WebSocket server accepts in one behaviour
Sockets == {"s1", "s2", "s3"}

\* the sessionUid of a WebSocket path; the server does not look it up
HubSids == {"2", "4"}

\* the uid of a WebSocket path
HubUids == {"3"}

ConnTypes == {"host", "user"}

\* the JSON messages a client sends over its socket
StateChange == [type |-> "state_change", page |-> "1", state |-> "voting"]

ClientMessages == {StateChange, [type |-> "ping", page |-> "", state |-> ""]}

\* no Connection: the socket has not connected
NoConn == [ws |-> "none", type |-> "none", sessionUid |-> NoSuch, uid |-> NoUid]

NoEvent == [op |-> "none", ws |-> "none", sid |-> NoSuch, data |-> <<>>,
            bad |-> {}, held |-> FALSE, threw |-> FALSE]

\* the fields of a document that a DataStore may declare as indices
Fields == {"token", "uid"}

\* the indices option of a DataStore: a list of fields without repetition, or
\* no option at all, which the constructor takes as []
IndexChoices == {<<>>, <<"token">>, <<"uid">>, <<"token", "uid">>, <<"uid", "token">>}

\* the filters argument of list: undefined (given is FALSE), or an object
\* with a value for some of the fields
FilterChoices ==
  {[given |-> FALSE, obj |-> <<>>]}
    \cup {[given |-> TRUE, obj |-> [f \in S |-> "x"]] : S \in SUBSET Fields}

\* no list call has been answered
NoList == [indices |-> <<>>, filters |-> [given |-> FALSE, obj |-> <<>>],
           err |-> "", reached |-> FALSE, done |-> FALSE]

\* the index fields of the reaction store, in the order of its storage key
\* sessionUid:page:uid:id
ReactionIndices == <<"sessionUid", "page", "uid">>

\* the values a reaction's index fields and id take
KvValues == [sessionUid |-> {"2", "4"}, page |-> {"0", "1"}, uid |-> {"3"}, id |-> {"a", "b"}]

\* the keys store and get of the reaction store are called with
ReactionKeys == [sessionUid : KvValues.sessionUid, page : KvValues.page,
                 uid : KvValues.uid, id : KvValues.id]

\* the filters argument of the reaction store's list: undefined, or an object
\* with a value for some of the index fields
KvFilterChoices ==
  {[given |-> FALSE, obj |-> <<>>]}
    \cup {[given |-> TRUE, obj |-> o] :
            o \in {g \in UNION {[S -> {"0", "1", "2", "3", "4"}] :
                                   S \in SUBSET {"sessionUid", "page", "uid"}} :
                     \A f \in DOMAIN g : g[f] \in KvValues[f]}}

\* no call of the reaction store has been answered
NoKvCall == [op |-> "none", filters |-> [given |-> FALSE, obj |-> <<>>],
             err |-> "", ret |-> {}]

\* the payloads { name, date } a token is signed for
Payloads == [name : {"alice"}, date : {"d1", "d2"}]

\* the private keys tokens are signed with, and the PUBLIC_KEY values of the
\* environment: the public key of one of them, or none
PrivateKeys == {"privA", "privB"}
NoKey == "nokey"
PublicKeys == {"pubA", "pubB", NoKey}

\* a token has no result yet
NoResult == [v |-> "none", name |-> "", date |-> ""]

\* verifyToken returned null
Invalid == [v |-> "null", name |-> "", date |-> ""]

\* no token is being made or verified
NoTokenCall == [pc |-> "idle", token |-> <<>>, payload |-> NoResult, key |-> "none",
                altered |-> "none", publicKey |-> NoKey, result |-> NoResult, err |-> "",
                response |-> [status |-> 0, error |-> <<>>]]

\* no call has been answered by both reaction stores
NoEquivCall == [op |-> "none", filters |-> [given |-> FALSE, obj |-> <<>>],
                kvErr |-> "", kv |-> {}, pg |-> {}]

\* the sockets a client creates in one behaviour, and no socket (null)
ClientSockets == 1..MaxSockets
NoSocket == 0

\* no timer (null)
NoTimer == 0

\* config.autoReconnect, at its default
autoReconnect == TRUE

\* ---------------------------------------------------------------- state
VARIABLES
  backend,        \* which store implementation is bound to the DataStores
  sessionStore,   \* key -> documents, most recent first
  hostStore,
  userStore,
  reactionStore,
  nextId,         \* index of the next identifier generateId() returns
  jar,            \* per caller: the cookies the API set on it
  last,           \* the request most recently answered, with its response
  calls           \* per caller: the handler invocation in progress (SpecConc)

\* the WebSocket server (ws-server.ts)
VARIABLES
  connections,    \* the registry: sessionUid -> the connections added under it
  readyState,     \* per socket: readyState of the server's end
  sockConn,       \* per socket: the Connection its handlers were created with
  inbox,          \* per socket: the data handed to ws.send, oldest first
  hubLast         \* the socket event most recently handled, with its outcome

\* DataStore.list (data-store.ts)
VARIABLES
  listCalls,      \* the list calls invoked on the bound backend, oldest first
  listLast        \* the list call most recently answered, with its outcome

\* the reaction store on Cloudflare KV (reaction-store-worker.ts)
VARIABLES
  reactionKv,     \* REACTION_KV: the entries, each a storage key with its document
  kvLast          \* the store call most recently answered, with its outcome

\* token signing and verification (verifyToken, generateToken)
VARIABLES
  tokenCall       \* the token being made or verified, with the outcome

\* a party holding the user role (SpecAttack)
VARIABLES
  known           \* the tokens and identifiers the party has been handed

\* the reaction store on PostgreSQL beside the one on KV (SpecEquiv)
VARIABLES
  documents,      \* the rows of table documents, oldest first
  equivLast       \* the call most recently answered by both stores

\* RevintClient (revint-lib)
VARIABLES
  clientUid,           \* this.uid is set: login has succeeded
  clientWs,            \* this.ws: the socket the client holds, NoSocket for null
  wsState,             \* per socket the client created: its readyState
  reconnectAttempts,   \* this.reconnectAttempts
  reconnectTimeout,    \* this.reconnectTimeout: a timer id, NoTimer for null
  timers,              \* the timers set and neither fired nor cleared
  timerCount,          \* the number of timers setTimeout has handed out
  intentionallyClosed, \* this.intentionallyClosed
  clientLast           \* the last step of the client; disconnected tells
                       \* whether disconnect() has returned since the last connect()

apiVars == <<backend, sessionStore, hostStore, userStore, reactionStore,
             nextId, jar, last, calls>>

hubVars == <<connections, readyState, sockConn, inbox, hubLast>>

listVars == <<listCalls, listLast>>

kvVars == <<reactionKv, kvLast>>

tokenVars == <<tokenCall>>

attackVars == <<known>>

equivVars == <<documents, equivLast>>

clientVars == <<clientUid, clientWs, wsState, reconnectAttempts, reconnectTimeout,
                timers, timerCount, intentionallyClosed, clientLast>>

vars == <<apiVars, hubVars, listVars, kvVars, tokenVars, attackVars, equivVars, clientVars>>

stores == <<sessionStore, hostStore, userStore, reactionStore>>

EmptyJar == [uid |-> NoUid, token |-> NoToken, via |-> "none", sid |-> NoSuch]

Idle == [pc |-> "idle"]

Init ==
  /\ backend \in Backends
  /\ sessionStore = [k \in KeySpace |-> <<>>]
  /\ hostStore = [k \in KeySpace |-> <<>>]
  /\ userStore = [k \in KeySpace |-> <<>>]
  /\ reactionStore = [k \in KeySpace |-> <<>>]
  /\ nextId = 1
  /\ jar = [c \in Callers |-> EmptyJar]
  /\ last = NoCall
  /\ calls = [c \in Callers |-> Idle]
  /\ connections = [k \in HubSids |-> <<>>]
  /\ readyState = [s \in Sockets |-> "none"]
  /\ sockConn = [s \in Sockets |-> NoConn]
  /\ inbox = [s \in Sockets |-> <<>>]
  /\ hubLast = NoEvent
  /\ listCalls = <<>>
  /\ listLast = NoList
  /\ reactionKv = {}
  /\ kvLast = NoKvCall
  /\ tokenCall = NoTokenCall
  /\ known = {}
  /\ documents = <<>>
  /\ equivLast = NoEquivCall
  /\ clientUid = FALSE
  /\ clientWs = NoSocket
  /\ wsState = [s \in ClientSockets |-> "none"]
  /\ reconnectAttempts = 0
  /\ reconnectTimeout = NoTimer
  /\ timers = {}
  /\ timerCount = 0
  /\ intentionallyClosed = FALSE
  /\ clientLast = [op |-> "none", disconnected |-> FALSE]

\* ---------------------------------------------------------------- helpers
generateId == IdName(nextId)

\* verifyToken: the signature check, abstracted to membership in the set of
\* tokens signed with the private key matching PUBLIC_KEY
verifyToken(token) == token \in SignedTokens

\* getVerifiedToken: "" when the header token is accepted, else the error
getVerifiedToken(cred) ==
  IF cred = NoToken THEN "Missing x-session-token header"
  ELSE IF ~verifyToken(cred) THEN "Invalid token"
  ELSE ""

\* store(key, doc) of a backend whose get(key) lists the oldest document first
Put_OldestFirst(store, key, doc) ==
  IF backend = "memory"
  THEN [store EXCEPT ![key] = <<doc>>]
  ELSE [store EXCEPT ![key] = @ \o <<doc>>]

\* store(key, doc) of the bound backend; a store maps a key to the documents
\* in the order get(key) returns them (ORDER BY created_at DESC, unshift)
Put(store, key, doc) ==
  IF backend = "memory"
  THEN [store EXCEPT ![key] = <<doc>>]
  ELSE [store EXCEPT ![key] = <<doc>> \o @]

\* the bound on retained history leaves room for one more document
CanPut(store, key) == backend = "memory" \/ Len(store[key]) < MaxHist

\* get(key) of the bound backend
Get(store, key) == IF key \in DOMAIN store THEN store[key] ELSE <<>>

\* docs.some(d => d.uid === uid)
SomeUid(docs, uid) == \E i \in 1..Len(docs) : docs[i].uid = uid

\* getVerifiedSessionAsHost comparing the wrong field of the session
getVerifiedSessionAsHost_WrongField(sid, cred) ==
  IF getVerifiedToken(cred) # "" THEN getVerifiedToken(cred)
  ELSE IF Len(Get(sessionStore, sid)) = 0 THEN "Session not found"
  ELSE IF Get(sessionStore, sid)[1].userToken # cred THEN "Token does not match session"
  ELSE ""

\* getVerifiedSessionAsHost: "" when the header token is the host token of the
\* session found under sessionUid, else the error thrown
getVerifiedSessionAsHost(sid, cred) ==
  IF getVerifiedToken(cred) # "" THEN getVerifiedToken(cred)
  ELSE IF Len(Get(sessionStore, sid)) = 0 THEN "Session not found"
  ELSE IF Get(sessionStore, sid)[1].token # cred THEN "Token does not match session"
  ELSE ""

\* getVerifiedSessionAsUser looking the session up before verifying the token
getVerifiedSessionAsUser_LookupFirst(sid, cred) ==
  IF Len(Get(sessionStore, sid)) = 0 THEN "Session not found"
  ELSE IF getVerifiedToken(cred) # "" THEN getVerifiedToken(cred)
  ELSE IF Get(sessionStore, sid)[1].userToken # cred THEN "Token does not match session"
  ELSE ""

\* getVerifiedSessionAsUser: the same against the session's user token
getVerifiedSessionAsUser(sid, cred) ==
  IF getVerifiedToken(cred) # "" THEN getVerifiedToken(cred)
  ELSE IF Len(Get(sessionStore, sid)) = 0 THEN "Session not found"
  ELSE IF Get(sessionStore, sid)[1].userToken # cred THEN "Token does not match session"
  ELSE ""

\* the session a request for sessionUid resolves to (sessions[0])
SessionOf(sid) == Get(sessionStore, sid)[1]

\* the uid cookies a request may carry: none, one no handler issued, or one
\* that some caller holds
CookieChoices == {NoUid, Forged} \cup {jar[d].uid : d \in Callers}

\* the sessionUid path parameters a request may carry: the sessionUids that
\* newSession handed out, or one that names no session
SidChoices == {k \in IdSet : Len(sessionStore[k]) > 0} \cup {NoSuch}

Answer(op, cred, cookie, sid, arg, err, ret) ==
  [op |-> op, cred |-> cred, cookie |-> cookie, sid |-> sid,
   arg |-> arg, err |-> err, ret |-> ret]

\* the webUiUrl newSession stores: body.webUiUrl?apiUrl=..&sessionUid=..
FormatWebUiUrl(webUiUrl, apiUrl, sessionUid) == <<webUiUrl, "?apiUrl=", apiUrl, "&sessionUid=", sessionUid>>

\* ---------------------------------------------------------------- handlers
\* newSessionFunction verifying the header token alone
NewSessionError_HeaderOnly(cred, userToken) == getVerifiedToken(cred)

\* newSessionFunction: the checks before the first write
NewSessionError(cred, userToken) ==
  IF getVerifiedToken(cred) # "" THEN getVerifiedToken(cred)
  ELSE IF ~verifyToken(userToken) THEN "Invalid user token"
  ELSE ""

\* newSessionFunction: the Session document it stores
SessionData(cred, userToken, sessionUid, apiUrl, webUiUrl, wsUrl) ==
  [token |-> cred, userToken |-> userToken, page |-> "0", state |-> "init",
   uid |-> sessionUid, apiUrl |-> apiUrl,
   webUiUrl |-> FormatWebUiUrl(webUiUrl, apiUrl, sessionUid), wsUrl |-> wsUrl]

\* newSessionFunction
NewSession(c, cred, userToken, apiUrl, webUiUrl, wsUrl) ==
  last = NoCall /\
  LET e == NewSessionError(cred, userToken)
      hostUid == IdName(nextId)
      sessionUid == IdName(nextId + 1)
      sessionData == SessionData(cred, userToken, sessionUid, apiUrl, webUiUrl, wsUrl)
  IN IF e # ""
     THEN /\ last' = Answer("newSession", cred, NoUid, NoSuch,
                            <<userToken, apiUrl, webUiUrl, wsUrl>>, e, <<>>)
          /\ UNCHANGED <<backend, stores, nextId, jar, calls>>
     ELSE /\ nextId + 1 <= MaxIds
          /\ CanPut(hostStore, cred)
          /\ CanPut(sessionStore, cred)
          /\ hostStore' = Put(hostStore, cred, [token |-> cred, uid |-> hostUid])
          /\ sessionStore' = Put(Put(sessionStore, cred, sessionData), sessionUid, sessionData)
          /\ nextId' = nextId + 2
          /\ jar' = [jar EXCEPT ![c] = [uid |-> hostUid, token |-> cred,
                                        via |-> "newSession", sid |-> sessionUid]]
          /\ last' = Answer("newSession", cred, NoUid, NoSuch,
                            <<userToken, apiUrl, webUiUrl, wsUrl>>, "",
                            <<cred, hostUid, sessionUid>>)
          /\ UNCHANGED <<backend, userStore, reactionStore, calls>>

\* loginFunction ignoring the uid cookie
LoginReuses_Never(existingUid) == FALSE

\* loginFunction: a uid cookie is present, so its uid is reused
LoginReuses(existingUid) == existingUid # NoUid

\* loginFunction registering the user before it verifies the credential
Login_MintFirst(c, cred, cookie, sid) ==
  last = NoCall /\
  LET e == getVerifiedSessionAsUser(sid, cred)
      uid == IF LoginReuses(cookie) THEN cookie ELSE generateId
  IN IF LoginReuses(cookie) \/ cred \notin DOMAIN userStore
     THEN /\ last' = Answer("login", cred, cookie, sid, <<>>, e,
                            IF e = "" THEN <<uid>> ELSE <<>>)
          /\ UNCHANGED <<backend, stores, nextId, jar, calls>>
     ELSE /\ nextId <= MaxIds
          /\ CanPut(userStore, cred)
          /\ userStore' = Put(userStore, cred, [token |-> cred, uid |-> uid])
          /\ nextId' = nextId + 1
          /\ jar' = [jar EXCEPT ![c] = [uid |-> uid, token |-> cred,
                                        via |-> "login", sid |-> sid]]
          /\ last' = Answer("login", cred, cookie, sid, <<>>, e,
                            IF e = "" THEN <<uid>> ELSE <<>>)
          /\ UNCHANGED <<backend, sessionStore, hostStore, reactionStore, calls>>

\* loginFunction
Login(c, cred, cookie, sid) ==
  last = NoCall /\
  LET e == getVerifiedSessionAsUser(sid, cred)
      existingUid == cookie
      uid == IF LoginReuses(existingUid) THEN existingUid ELSE generateId
  IN IF e # ""
     THEN /\ last' = Answer("login", cred, cookie, sid, <<>>, e, <<>>)
          /\ UNCHANGED <<backend, stores, nextId, jar, calls>>
     ELSE IF LoginReuses(existingUid)
     THEN /\ last' = Answer("login", cred, cookie, sid, <<>>, "", <<uid>>)
          /\ UNCHANGED <<backend, stores, nextId, jar, calls>>
     ELSE /\ nextId <= MaxIds
          /\ CanPut(userStore, cred)
          /\ userStore' = Put(userStore, cred, [token |-> cred, uid |-> uid])
          /\ nextId' = nextId + 1
          /\ jar' = [jar EXCEPT ![c] = [uid |-> uid, token |-> cred,
                                        via |-> "login", sid |-> sid]]
          /\ last' = Answer("login", cred, cookie, sid, <<>>, "", <<uid>>)
          /\ UNCHANGED <<backend, sessionStore, hostStore, reactionStore, calls>>

\* reactFunction without the comparison of the uid cookie with the uid argument
ReactError_NoCookieMatch(cred, cookie, sid, uid) ==
  LET e0 == getVerifiedSessionAsUser(sid, cred)
      users == Get(userStore, cred)
      isUser == SomeUid(users, uid)
  IN IF e0 # "" THEN e0
     ELSE IF ~isUser
          THEN "Not authorized: user not registered for this session"
     ELSE ""

\* reactFunction: the checks before the write
ReactError(cred, cookie, sid, uid) ==
  LET e0 == getVerifiedSessionAsUser(sid, cred)
      cookieUid == cookie
      users == Get(userStore, cred)
      isUser == SomeUid(users, uid)
  IN IF e0 # "" THEN e0
     ELSE IF cookieUid = NoUid \/ cookieUid # uid
          THEN "Not authorized: user id mismatch"
     ELSE IF ~isUser
          THEN "Not authorized: user not registered for this session"
     ELSE ""

\* reactFunction
React(cred, cookie, sid, uid, page, reaction) ==
  last = NoCall /\
  LET e == ReactError(cred, cookie, sid, uid)
      \* time: Date.now() is left out of the document: two calls within one
      \* millisecond carry the same value, so it does not tell documents apart
      reactionDoc == [token |-> cred, uid |-> uid, page |-> page, reaction |-> reaction]
  IN IF e # ""
     THEN /\ last' = Answer("react", cred, cookie, sid, <<uid, page, reaction>>, e, <<>>)
          /\ UNCHANGED <<backend, stores, nextId, jar, calls>>
     ELSE /\ CanPut(reactionStore, cred)
          /\ reactionStore' = Put(reactionStore, cred, reactionDoc)
          /\ last' = Answer("react", cred, cookie, sid, <<uid, page, reaction>>, "", <<TRUE>>)
          /\ UNCHANGED <<backend, sessionStore, hostStore, userStore, nextId, jar, calls>>

\* setStateFunction without the check of the host uid
SetStateError_NoHostCheck(cred, cookie, sid) ==
  getVerifiedSessionAsHost(sid, cred)

\* setStateFunction: the checks before the first write
SetStateError(cred, cookie, sid) ==
  LET e0 == getVerifiedSessionAsHost(sid, cred)
      hosts == Get(hostStore, cred)
      hostUid == cookie
      isHost == SomeUid(hosts, hostUid)
  IN IF e0 # "" THEN e0
     ELSE IF ~isHost THEN "Not authorized: only host can set state"
     ELSE ""

\* setStateFunction: the Session document it writes over the existing one
SessionDoc(token, existing, page, state) ==
  [token |-> token, userToken |-> existing.userToken, page |-> page,
   state |-> state, uid |-> existing.uid, apiUrl |-> existing.apiUrl,
   webUiUrl |-> existing.webUiUrl, wsUrl |-> existing.wsUrl]

\* setStateFunction
SetState(cred, cookie, sid, page, state) ==
  last = NoCall /\
  LET e == SetStateError(cred, cookie, sid)
      existing == SessionOf(sid)
      sessionDoc == SessionDoc(cred, existing, page, state)
  IN IF e # ""
     THEN /\ last' = Answer("setState", cred, cookie, sid, <<page, state>>, e, <<>>)
          /\ UNCHANGED <<backend, stores, nextId, jar, calls>>
     ELSE /\ CanPut(sessionStore, cred)
          /\ CanPut(sessionStore, existing.uid)
          /\ sessionStore' = Put(Put(sessionStore, cred, sessionDoc), existing.uid, sessionDoc)
          /\ last' = Answer("setState", cred, cookie, sid, <<page, state>>, "", <<TRUE>>)
          /\ UNCHANGED <<backend, hostStore, userStore, reactionStore, nextId, jar, calls>>

\* getStateFunction taking a verified user token as proof of registration
GetStateError_NoRegistration(cred, cookie, sid) ==
  LET userUid == cookie
      eh == getVerifiedSessionAsHost(sid, cred)
      eu == getVerifiedSessionAsUser(sid, cred)
      isHost == eh = "" /\ SomeUid(Get(hostStore, cred), userUid)
      isUser == eh # "" /\ eu = ""
  IN IF userUid = NoUid THEN "Not authorized: must be logged in"
     ELSE IF eh # "" /\ eu # "" THEN eu
     ELSE IF ~isUser /\ ~isHost
          THEN "Not authorized: user not registered for this session"
     ELSE ""

\* getStateFunction with one error for both identity failures
GetStateError_OneIdentityError(cred, cookie, sid) ==
  LET userUid == cookie
      eh == getVerifiedSessionAsHost(sid, cred)
      eu == getVerifiedSessionAsUser(sid, cred)
      isHost == eh = "" /\ SomeUid(Get(hostStore, cred), userUid)
      isUser == eh # "" /\ eu = "" /\ SomeUid(Get(userStore, cred), userUid)
  IN IF eh # "" /\ eu # "" THEN eu
     ELSE IF userUid = NoUid \/ (~isUser /\ ~isHost)
          THEN "Not authorized: user not registered for this session"
     ELSE ""

\* getStateFunction: the error it throws, "" when it returns the session
GetStateError(cred, cookie, sid) ==
  LET userUid == cookie
      eh == getVerifiedSessionAsHost(sid, cred)
      eu == getVerifiedSessionAsUser(sid, cred)
      isHost == eh = "" /\ SomeUid(Get(hostStore, cred), userUid)
      isUser == eh # "" /\ eu = "" /\ SomeUid(Get(userStore, cred), userUid)
  IN IF userUid = NoUid THEN "Not authorized: must be logged in"
     ELSE IF eh # "" /\ eu # "" THEN eu
     ELSE IF ~isUser /\ ~isHost
          THEN "Not authorized: user not registered for this session"
     ELSE ""

\* getStateFunction
GetState(cred, cookie, sid) ==
  last = NoCall /\
  LET e == GetStateError(cred, cookie, sid)
  IN /\ last' = Answer("getState", cred, cookie, sid, <<>>, e,
                       IF e = "" THEN <<SessionOf(sid)>> ELSE <<>>)
     /\ UNCHANGED <<backend, stores, nextId, jar, calls>>

\* getSessionFunction
GetSession(sid) ==
  last = NoCall /\
  LET sessions == Get(sessionStore, sid)
      session == sessions[1]
  IN /\ last' = Answer("getSession", NoToken, NoUid, sid, <<>>, "",
                       IF Len(sessions) = 0 THEN <<>>
                       ELSE <<[userToken |-> session.userToken, apiUrl |-> session.apiUrl,
                               webUiUrl |-> session.webUiUrl, wsUrl |-> session.wsUrl]>>)
     /\ UNCHANGED <<backend, stores, nextId, jar, calls>>

\* the header tokens a request may carry
CredChoices == SignedTokens \cup {BadToken, NoToken}

\* the uid path parameter of a react request: a uid no handler issued, or one
\* that some caller holds
UidChoices == ({Forged} \cup {jar[d].uid : d \in Callers}) \ {NoUid}

\* the (header token, uid cookie, sessionUid) triples a request may carry; a
\* token that getVerifiedToken rejects is sent with one cookie and sessionUid,
\* and a sessionUid that names no session with an absent and a forged cookie
Requests ==
  (SignedTokens \X CookieChoices \X (SidChoices \ {NoSuch}))
    \cup (SignedTokens \X {NoUid, Forged} \X {NoSuch})
    \cup ({BadToken, NoToken} \X {Forged} \X {NoSuch})

\* the transport (expressHandler) sends the pending response to the client
Respond ==
  /\ last # NoCall
  /\ last' = NoCall
  /\ UNCHANGED <<backend, stores, nextId, jar, calls>>

\* session lifecycle and state API, one request at a time
Next ==
  \/ \E c \in Callers, cred \in CredChoices, ut \in SignedTokens \cup {BadToken},
        a \in ApiUrls, w \in WebUiUrls, ws \in WsUrls :
       NewSession(c, cred, ut, a, w, ws) /\ UNCHANGED <<hubVars, listVars, kvVars, tokenVars, attackVars, equivVars, clientVars>>
  \/ \E c \in Callers, r \in Requests :
       Login(c, r[1], r[2], r[3]) /\ UNCHANGED <<hubVars, listVars, kvVars, tokenVars, attackVars, equivVars, clientVars>>
  \/ \E r \in Requests, p \in Pages, st \in States :
       SetState(r[1], r[2], r[3], p, st) /\ UNCHANGED <<hubVars, listVars, kvVars, tokenVars, attackVars, equivVars, clientVars>>
  \/ \E r \in Requests :
       GetState(r[1], r[2], r[3]) /\ UNCHANGED <<hubVars, listVars, kvVars, tokenVars, attackVars, equivVars, clientVars>>
  \/ \E sid \in SidChoices :
       GetSession(sid) /\ UNCHANGED <<hubVars, listVars, kvVars, tokenVars, attackVars, equivVars, clientVars>>
  \/ Respond /\ UNCHANGED <<hubVars, listVars, kvVars, tokenVars, attackVars, equivVars, clientVars>>

Spec == Init /\ [][Next]_vars

\* the reaction ledger: sessions, logins and reactions, one request at a time
NextReact ==
  \/ \E c \in Callers, cred \in CredChoices, ut \in SignedTokens \cup {BadToken},
        a \in ApiUrls, w \in WebUiUrls, ws \in WsUrls :
       NewSession(c, cred, ut, a, w, ws) /\ UNCHANGED <<hubVars, listVars, kvVars, tokenVars, attackVars, equivVars, clientVars>>
  \/ \E c \in Callers, r \in Requests :
       Login(c, r[1], r[2], r[3]) /\ UNCHANGED <<hubVars, listVars, kvVars, tokenVars, attackVars, equivVars, clientVars>>
  \/ \E r \in Requests, uid \in UidChoices, p \in ReactPages, re \in Reactions :
       React(r[1], r[2], r[3], uid, p, re) /\ UNCHANGED <<hubVars, listVars, kvVars, tokenVars, attackVars, equivVars, clientVars>>
  \/ Respond /\ UNCHANGED <<hubVars, listVars, kvVars, tokenVars, attackVars, equivVars, clientVars>>

SpecReact == Init /\ [][NextReact]_vars

\* ------------------------------------------------- concurrent handlers
\* newSessionFunction and setStateFunction are async functions: between two
\* awaited store calls other invocations run.  calls[c] is the invocation of
\* caller c that has been started and has not returned yet.

\* newSessionFunction up to and including the awaited hostStore.store
NewSessionStart(c, cred, userToken, apiUrl, webUiUrl, wsUrl) ==
  LET hostUid == IdName(nextId)
      sessionUid == IdName(nextId + 1)
  IN /\ calls[c] = Idle
     /\ NewSessionError(cred, userToken) = ""
     /\ nextId + 1 <= MaxIds
     /\ CanPut(hostStore, cred)
     /\ hostStore' = Put(hostStore, cred, [token |-> cred, uid |-> hostUid])
     /\ nextId' = nextId + 2
     /\ calls' = [calls EXCEPT ![c] =
          [pc |-> "newSession:token", token |-> cred, hostUid |-> hostUid,
           doc |-> SessionData(cred, userToken, sessionUid, apiUrl, webUiUrl, wsUrl)]]
     /\ UNCHANGED <<backend, sessionStore, userStore, reactionStore, jar, last>>

\* newSessionFunction: await sessionStore.store(token, sessionData)
NewSessionStoreByToken(c) ==
  /\ calls[c].pc = "newSession:token"
  /\ CanPut(sessionStore, calls[c].token)
  /\ sessionStore' = Put(sessionStore, calls[c].token, calls[c].doc)
  /\ calls' = [calls EXCEPT ![c].pc = "newSession:uid"]
  /\ UNCHANGED <<backend, hostStore, userStore, reactionStore, nextId, jar, last>>

\* newSessionFunction: await sessionStore.store(sessionUid, sessionData), the
\* cookies and the return
NewSessionStoreByUid(c) ==
  /\ calls[c].pc = "newSession:uid"
  /\ sessionStore' = Put(sessionStore, calls[c].doc.uid, calls[c].doc)
  /\ jar' = [jar EXCEPT ![c] = [uid |-> calls[c].hostUid, token |-> calls[c].token,
                                via |-> "newSession", sid |-> calls[c].doc.uid]]
  /\ calls' = [calls EXCEPT ![c] = Idle]
  /\ UNCHANGED <<backend, hostStore, userStore, reactionStore, nextId, last>>

\* setStateFunction up to the awaited sessionStore.get of
\* getVerifiedSessionAsHost; a request it rejects leaves nothing in progress
SetStateStart(c, cred, cookie, sid, page, state) ==
  /\ calls[c] = Idle
  /\ getVerifiedSessionAsHost(sid, cred) = ""
  /\ calls' = [calls EXCEPT ![c] =
       [pc |-> "setState:hosts", token |-> cred, hostUid |-> cookie,
        doc |-> SessionDoc(cred, SessionOf(sid), page, state)]]
  /\ UNCHANGED <<backend, stores, nextId, jar, last>>

\* setStateFunction: await hostStore.get(token) and the isHost check
SetStateCheckHost(c) ==
  /\ calls[c].pc = "setState:hosts"
  /\ calls' = [calls EXCEPT ![c] =
       IF SomeUid(Get(hostStore, calls[c].token), calls[c].hostUid)
       THEN [calls[c] EXCEPT !.pc = "setState:token"]
       ELSE Idle]
  /\ UNCHANGED <<backend, stores, nextId, jar, last>>

\* setStateFunction: await sessionStore.store(token, sessionDoc)
SetStateStoreByToken(c) ==
  /\ calls[c].pc = "setState:token"
  /\ CanPut(sessionStore, calls[c].token)
  /\ sessionStore' = Put(sessionStore, calls[c].token, calls[c].doc)
  /\ calls' = [calls EXCEPT ![c].pc = "setState:uid"]
  /\ UNCHANGED <<backend, hostStore, userStore, reactionStore, nextId, jar, last>>

\* setStateFunction: await sessionStore.store(existing.uid, sessionDoc) and
\* the return
SetStateStoreByUid(c) ==
  /\ calls[c].pc = "setState:uid"
  /\ CanPut(sessionStore, calls[c].doc.uid)
  /\ sessionStore' = Put(sessionStore, calls[c].doc.uid, calls[c].doc)
  /\ calls' = [calls EXCEPT ![c] = Idle]
  /\ UNCHANGED <<backend, hostStore, userStore, reactionStore, nextId, jar, last>>

\* session creation and state updates of several callers, interleaved at the
\* awaits
NextConc ==
  \/ \E c \in Callers, cred \in SignedTokens, ut \in SignedTokens,
        a \in ApiUrls, w \in WebUiUrls, ws \in WsUrls :
       NewSessionStart(c, cred, ut, a, w, ws) /\ UNCHANGED <<hubVars, listVars, kvVars, tokenVars, attackVars, equivVars, clientVars>>
  \/ \E c \in Callers : NewSessionStoreByToken(c) /\ UNCHANGED <<hubVars, listVars, kvVars, tokenVars, attackVars, equivVars, clientVars>>
  \/ \E c \in Callers : NewSessionStoreByUid(c) /\ UNCHANGED <<hubVars, listVars, kvVars, tokenVars, attackVars, equivVars, clientVars>>
  \/ \E c \in Callers, cred \in SignedTokens, ck \in CookieChoices \ {NoUid},
        sid \in SidChoices, p \in ConcPages, st \in States :
       SetStateStart(c, cred, ck, sid, p, st) /\ UNCHANGED <<hubVars, listVars, kvVars, tokenVars, attackVars, equivVars, clientVars>>
  \/ \E c \in Callers : SetStateCheckHost(c) /\ UNCHANGED <<hubVars, listVars, kvVars, tokenVars, attackVars, equivVars, clientVars>>
  \/ \E c \in Callers : SetStateStoreByToken(c) /\ UNCHANGED <<hubVars, listVars, kvVars, tokenVars, attackVars, equivVars, clientVars>>
  \/ \E c \in Callers : SetStateStoreByUid(c) /\ UNCHANGED <<hubVars, listVars, kvVars, tokenVars, attackVars, equivVars, clientVars>>

SpecConc == Init /\ [][NextConc]_vars

\* ------------------------------------------------- WebSocket server
\* JSON.stringify(message): the text handed to ws.send
Stringify(message) == <<"{", message.type, message.page, message.state, "}">>

\* addConnection pushing on the list and then storing the list with the
\* connection added once more
addConnection_PushTwice(conn) ==
  [connections EXCEPT ![conn.sessionUid] = Append(Append(@, conn), conn)]

\* addConnection: push the connection on the list of its sessionUid
addConnection(conn) ==
  [connections EXCEPT ![conn.sessionUid] = Append(@, conn)]

\* removeConnection written with findIndex and splice: when the socket is not
\* in the list, splice(-1, 1) takes the last connection out
removeConnection_Splice(conn) ==
  LET existing == connections[conn.sessionUid]
      found == \E i \in 1..Len(existing) : existing[i].ws = conn.ws
  IN IF found
     THEN [connections EXCEPT ![conn.sessionUid] =
             SelectSeq(existing, LAMBDA c : c.ws # conn.ws)]
     ELSE [connections EXCEPT ![conn.sessionUid] =
             SubSeq(existing, 1, Len(existing) - 1)]

\* removeConnection: keep the connections of other sockets; a list left empty
\* is deleted from the map (<<>> stands for an absent key: get(..) || [])
removeConnection(conn) ==
  LET existing == connections[conn.sessionUid]
      filtered == SelectSeq(existing, LAMBDA c : c.ws # conn.ws)
  IN [connections EXCEPT ![conn.sessionUid] = filtered]

\* the loop of broadcastToSession from position i on: box is the inbox so
\* far, bad the sockets whose send throws; a throw leaves the loop
RECURSIVE SendFrom(_, _, _, _, _)
SendFrom(conns, i, box, data, bad) ==
  IF i > Len(conns) THEN [inbox |-> box, threw |-> FALSE]
  ELSE IF conns[i].type = "user" /\ readyState[conns[i].ws] = "open"
       THEN IF conns[i].ws \in bad
            THEN [inbox |-> box, threw |-> TRUE]
            ELSE SendFrom(conns, i + 1,
                          [box EXCEPT ![conns[i].ws] = Append(@, data)], data, bad)
       ELSE SendFrom(conns, i + 1, box, data, bad)

\* broadcastToSession(sessionUid, message)
broadcastToSession(sessionUid, message, bad) ==
  SendFrom(connections[sessionUid], 1, inbox, Stringify(message), bad)

\* the registry holds a connection of socket s under sessionUid
Registered(sessionUid, s) ==
  \E i \in 1..Len(connections[sessionUid]) : connections[sessionUid][i].ws = s

\* a handled socket event: bad names the sockets whose send throws during
\* it, held tells whether the registry held the socket when the handler
\* started, threw whether the handler ended in an exception
Event(op, s, sid, data, bad, threw) ==
  [op |-> op, ws |-> s, sid |-> sid, data |-> data, bad |-> bad,
   held |-> IF sid \in HubSids THEN Registered(sid, s) ELSE FALSE, threw |-> threw]

\* wss.on("connection") with a path parsePath rejects
WsConnectInvalid(s) ==
  /\ hubLast = NoEvent
  /\ readyState[s] = "none"
  /\ readyState' = [readyState EXCEPT ![s] = "closed"]
  /\ hubLast' = Event("reject", s, NoSuch, <<>>, {}, FALSE)
  /\ UNCHANGED <<connections, sockConn, inbox>>

\* wss.on("connection") with a host or user pipe path
WsConnect(s, type, sessionUid, uid) ==
  LET conn == [ws |-> s, type |-> type, sessionUid |-> sessionUid, uid |-> uid]
  IN /\ hubLast = NoEvent
     /\ readyState[s] = "none"
     /\ connections' = addConnection(conn)
     /\ readyState' = [readyState EXCEPT ![s] = "open"]
     /\ sockConn' = [sockConn EXCEPT ![s] = conn]
     /\ hubLast' = Event("connect", s, sessionUid, <<>>, {}, FALSE)
     /\ UNCHANGED inbox

\* socket.on("message"): the parsed message goes to the pipe's onMessage; the
\* host pipe broadcasts a state_change message, a throw of which rejects the
\* handler's promise (logged by .catch(console.error))
WsMessage(s, message, bad) ==
  LET conn == sockConn[s]
      sent == broadcastToSession(conn.sessionUid, message, bad)
  IN /\ hubLast = NoEvent
     /\ readyState[s] = "open"
     /\ IF conn.type = "host" /\ message.type = "state_change"
        THEN /\ \A t \in Sockets : Len(inbox[t]) < MaxSent
             /\ inbox' = sent.inbox
             /\ hubLast' = Event("message", s, conn.sessionUid, <<message>>, bad, sent.threw)
        ELSE /\ bad = {}
             /\ inbox' = inbox
             /\ hubLast' = Event("message", s, conn.sessionUid, <<message>>, {}, FALSE)
     /\ UNCHANGED <<connections, readyState, sockConn>>

\* the closing handshake of an open socket starts: readyState is CLOSING and
\* the close event has not fired yet
WsClosing(s) ==
  /\ hubLast = NoEvent
  /\ readyState[s] = "open"
  /\ readyState' = [readyState EXCEPT ![s] = "closing"]
  /\ hubLast' = Event("closing", s, sockConn[s].sessionUid, <<>>, {}, FALSE)
  /\ UNCHANGED <<connections, sockConn, inbox>>

\* socket.on("error") that only logs the error
WsError_LogOnly(s) ==
  /\ hubLast = NoEvent
  /\ readyState[s] = "open"
  /\ readyState' = [readyState EXCEPT ![s] = "closing"]
  /\ hubLast' = Event("error", s, sockConn[s].sessionUid, <<>>, {}, FALSE)
  /\ UNCHANGED <<connections, sockConn, inbox>>

\* socket.on("error"): the socket is on its way to closed
WsError(s) ==
  /\ hubLast = NoEvent
  /\ readyState[s] = "open"
  /\ connections' = removeConnection(sockConn[s])
  /\ readyState' = [readyState EXCEPT ![s] = "closing"]
  /\ hubLast' = Event("error", s, sockConn[s].sessionUid, <<>>, {}, FALSE)
  /\ UNCHANGED <<sockConn, inbox>>

\* socket.on("close")
WsClose(s) ==
  /\ hubLast = NoEvent
  /\ readyState[s] \in {"open", "closing"}
  /\ sockConn[s] # NoConn
  /\ connections' = removeConnection(sockConn[s])
  /\ readyState' = [readyState EXCEPT ![s] = "closed"]
  /\ hubLast' = Event("close", s, sockConn[s].sessionUid, <<>>, {}, FALSE)
  /\ UNCHANGED <<sockConn, inbox>>

\* the event handler has returned
WsDone ==
  /\ hubLast # NoEvent
  /\ hubLast' = NoEvent
  /\ UNCHANGED <<connections, readyState, sockConn, inbox>>

\* the sockets whose send throws during one event: none, or one of them
BadChoices == {{}} \cup {{s} : s \in Sockets}

\* the WebSocket server: one socket event at a time
NextHub ==
  \/ \E s \in Sockets : WsConnectInvalid(s) /\ UNCHANGED <<apiVars, listVars, kvVars, tokenVars, attackVars, equivVars, clientVars>>
  \/ \E s \in Sockets, t \in ConnTypes, sid \in HubSids, u \in HubUids :
       WsConnect(s, t, sid, u) /\ UNCHANGED <<apiVars, listVars, kvVars, tokenVars, attackVars, equivVars, clientVars>>
  \/ \E s \in Sockets, m \in ClientMessages, bad \in BadChoices :
       WsMessage(s, m, bad) /\ UNCHANGED <<apiVars, listVars, kvVars, tokenVars, attackVars, equivVars, clientVars>>
  \/ \E s \in Sockets : WsClosing(s) /\ UNCHANGED <<apiVars, listVars, kvVars, tokenVars, attackVars, equivVars, clientVars>>
  \/ \E s \in Sockets : WsError(s) /\ UNCHANGED <<apiVars, listVars, kvVars, tokenVars, attackVars, equivVars, clientVars>>
  \/ \E s \in Sockets : WsClose(s) /\ UNCHANGED <<apiVars, listVars, kvVars, tokenVars, attackVars, equivVars, clientVars>>
  \/ WsDone /\ UNCHANGED <<apiVars, listVars, kvVars, tokenVars, attackVars, equivVars, clientVars>>

SpecHub == Init /\ [][NextHub]_vars

\* the host moving a session on while users are connected: session creation
\* and setState of the API, connections of users to the WebSocket server
NextNotify ==
  \/ \E c \in Callers, cred \in SignedTokens, ut \in SignedTokens,
        a \in ApiUrls, w \in WebUiUrls, ws \in WsUrls :
       NewSession(c, cred, ut, a, w, ws) /\ UNCHANGED <<hubVars, listVars, kvVars, tokenVars, attackVars, equivVars, clientVars>>
  \/ \E r \in Requests, p \in Pages, st \in States :
       SetState(r[1], r[2], r[3], p, st) /\ UNCHANGED <<hubVars, listVars, kvVars, tokenVars, attackVars, equivVars, clientVars>>
  \/ Respond /\ UNCHANGED <<hubVars, listVars, kvVars, tokenVars, attackVars, equivVars, clientVars>>
  \/ \E s \in Sockets, sid \in HubSids, u \in HubUids :
       WsConnect(s, "user", sid, u) /\ UNCHANGED <<apiVars, listVars, kvVars, tokenVars, attackVars, equivVars, clientVars>>
  \/ WsDone /\ UNCHANGED <<apiVars, listVars, kvVars, tokenVars, attackVars, equivVars, clientVars>>

SpecNotify == Init /\ [][NextNotify]_vars

\* ------------------------------------------------- DataStore.list
\* Object.keys(filters).length
KeysLength(filters) == Cardinality(DOMAIN filters.obj)

\* DataStore.list throwing only for a store whose indices miss a filtered field
ListError_UndeclaredField(indices, filters) ==
  IF filters.given /\ KeysLength(filters) > 0 /\ Len(indices) > 0
       /\ \E f \in DOMAIN filters.obj : \A i \in 1..Len(indices) : indices[i] # f
  THEN "Cannot filter by fields when no indices are defined for this DataStore"
  ELSE ""

\* DataStore.list: the check before listFunction.invoke
ListError(indices, filters) ==
  IF filters.given /\ KeysLength(filters) > 0 /\ Len(indices) = 0
  THEN "Cannot filter by fields when no indices are defined for this DataStore"
  ELSE ""

\* DataStore.list on a store declared with the given indices: a throw ends the call,
\* otherwise listFunction.invoke(filters) reaches the bound backend
List(indices, filters) ==
  LET e == ListError(indices, filters)
  IN /\ listLast = NoList
     /\ IF e # ""
        THEN /\ listLast' = [indices |-> indices, filters |-> filters, err |-> e,
                             reached |-> FALSE, done |-> TRUE]
             /\ UNCHANGED listCalls
        ELSE /\ Len(listCalls) < MaxList
             /\ listCalls' = Append(listCalls, [backend |-> backend, filters |-> filters])
             /\ listLast' = [indices |-> indices, filters |-> filters, err |-> "",
                             reached |-> TRUE, done |-> TRUE]

\* the caller has the outcome of the list call
ListDone ==
  /\ listLast # NoList
  /\ listLast' = NoList
  /\ UNCHANGED listCalls

\* list calls on DataStores of every declaration, one at a time
NextList ==
  \/ \E ix \in IndexChoices, f \in FilterChoices :
       List(ix, f) /\ UNCHANGED <<apiVars, hubVars, kvVars, tokenVars, attackVars, equivVars, clientVars>>
  \/ ListDone /\ UNCHANGED <<apiVars, hubVars, kvVars, tokenVars, attackVars, equivVars, clientVars>>

SpecList == Init /\ [][NextList]_vars

\* the guarded operations login, react and setState of one client, one
\* request at a time, with every combination of header token, uid cookie and
\* sessionUid
NextGuard ==
  \/ \E c \in {"c1"}, cred \in CredChoices, ut \in SignedTokens \cup {BadToken},
        a \in ApiUrls, w \in WebUiUrls, ws \in WsUrls :
       NewSession(c, cred, ut, a, w, ws) /\ UNCHANGED <<hubVars, listVars, kvVars, tokenVars, attackVars, equivVars, clientVars>>
  \/ \E c \in {"c1"}, cred \in CredChoices, ck \in CookieChoices, sid \in SidChoices :
       Login(c, cred, ck, sid) /\ UNCHANGED <<hubVars, listVars, kvVars, tokenVars, attackVars, equivVars, clientVars>>
  \/ \E cred \in CredChoices, ck \in CookieChoices, sid \in SidChoices,
        uid \in UidChoices, p \in ReactPages, re \in Reactions :
       React(cred, ck, sid, uid, p, re) /\ UNCHANGED <<hubVars, listVars, kvVars, tokenVars, attackVars, equivVars, clientVars>>
  \/ \E cred \in CredChoices, ck \in CookieChoices, sid \in SidChoices,
        p \in Pages, st \in States :
       SetState(cred, ck, sid, p, st) /\ UNCHANGED <<hubVars, listVars, kvVars, tokenVars, attackVars, equivVars, clientVars>>
  \/ Respond /\ UNCHANGED <<hubVars, listVars, kvVars, tokenVars, attackVars, equivVars, clientVars>>

SpecGuard == Init /\ [][NextGuard]_vars

\* the indices reactionStore is declared with: new DataStore<Reaction>(arch,
\* "reaction-store") passes no options
reactionStoreIndices == <<>>

\* ------------------------------------------------- reaction store on KV
\* buildStorageKey(key, indices): the index values in index order, then the id
buildStorageKey(key, indices) ==
  [i \in 1..Len(indices) |-> key[indices[i]]] \o <<key.id>>

\* buildListPrefix from index i on: the values of the consecutive index
\* fields the filters name, up to the first index field they do not name
RECURSIVE PrefixFrom(_, _, _)
PrefixFrom(obj, indices, i) ==
  IF i > Len(indices) \/ indices[i] \notin DOMAIN obj THEN <<>>
  ELSE <<obj[indices[i]]>> \o PrefixFrom(obj, indices, i + 1)

\* buildListPrefix(filters, indices): the prefix, and whether it used every
\* field of the filters
buildListPrefix(filters, indices) ==
  LET prefix == IF filters.given THEN PrefixFrom(filters.obj, indices, 1) ELSE <<>>
  IN [prefix |-> prefix,
      usedAll |-> ~filters.given \/ Len(prefix) = Cardinality(DOMAIN filters.obj)]

\* kv.list({ prefix }): the entries whose storage key starts with the prefix
KvListPrefix(prefix) ==
  {e \in reactionKv : /\ Len(e.key) >= Len(prefix)
                      /\ SubSeq(e.key, 1, Len(prefix)) = prefix}

\* list of the reaction store scanning by whatever prefix could be built
KvListError_Scan(usedAll) == ""

\* list of the reaction store: the throw for filters the prefix does not cover
KvListError(usedAll) ==
  IF ~usedAll
  THEN "KV list only supports filtering by consecutive index fields from the start"
  ELSE ""

\* store(key, doc) of the reaction store: kv.put under the storage key
KvStore(key, reaction) ==
  LET storageKey == buildStorageKey(key, ReactionIndices)
      doc == [sessionUid |-> key.sessionUid, page |-> key.page, uid |-> key.uid,
              reaction |-> reaction]
  IN /\ kvLast = NoKvCall
     /\ reactionKv' = {e \in reactionKv : e.key # storageKey}
                        \cup {[key |-> storageKey, doc |-> doc]}
     /\ kvLast' = [op |-> "store", filters |-> [given |-> FALSE, obj |-> <<>>],
                   err |-> "", ret |-> {}]

\* list(filters) of the reaction store; ret holds the documents returned
\* (their order, that of the keys, is left out)
KvList(filters) ==
  LET built == buildListPrefix(filters, ReactionIndices)
      e == KvListError(built.usedAll)
  IN /\ kvLast = NoKvCall
     /\ kvLast' = [op |-> "list", filters |-> filters, err |-> e,
                   ret |-> IF e # "" THEN {}
                           ELSE {x.doc : x \in KvListPrefix(built.prefix)}]
     /\ UNCHANGED reactionKv

\* the caller has the outcome of the store call
KvDone ==
  /\ kvLast # NoKvCall
  /\ kvLast' = NoKvCall
  /\ UNCHANGED reactionKv

\* the reaction store worker, one call at a time
NextKv ==
  \/ \E key \in ReactionKeys, re \in Reactions :
       KvStore(key, re) /\ UNCHANGED <<apiVars, hubVars, listVars, tokenVars, attackVars, equivVars, clientVars>>
  \/ \E f \in KvFilterChoices : KvList(f) /\ UNCHANGED <<apiVars, hubVars, listVars, tokenVars, attackVars, equivVars, clientVars>>
  \/ KvDone /\ UNCHANGED <<apiVars, hubVars, listVars, tokenVars, attackVars, equivVars, clientVars>>

SpecKv == Init /\ [][NextKv]_vars

\* ------------------------------------------------- tokens
\* JSON.stringify({ name, date }): the text of a payload
JsonStringify(p) == <<"{", "name", p.name, "date", p.date, "}">>

\* a text that is not JSON, and the JSON text null
NotJson == <<"not json">>
JsonNull == <<"null">>

\* the value a verified token yields for payload p
PayloadResult(p) == [v |-> "payload", name |-> p.name, date |-> p.date]

\* JSON.parse(text): the value, or a throw
JsonParse(text) ==
  IF \E p \in Payloads : JsonStringify(p) = text
  THEN [threw |-> FALSE,
        value |-> PayloadResult(CHOOSE p \in Payloads : JsonStringify(p) = text)]
  ELSE IF text = JsonNull THEN [threw |-> FALSE, value |-> Invalid]
  ELSE [threw |-> TRUE, value |-> Invalid]

\* Buffer.from(payload): the bytes of a text. Bytes are written as the text
\* they encode, the key they were signed by (none for plain text) and whether
\* a byte of them was altered since
Utf8(text) == [text |-> text, by |-> "none", altered |-> FALSE]

\* buffer.toString("utf-8"): the text of bytes; bytes that are not the
\* encoding of a text decode to some other text, never to a throw
Utf8ToString(bytes) ==
  IF bytes.by = "none" /\ ~bytes.altered THEN bytes.text ELSE <<"garbage">>

\* sign.update(payload); sign.sign(privateKey): the signature bytes
Signature(text, privateKey) == [text |-> text, by |-> privateKey, altered |-> FALSE]

\* the public key of a private key
publicKeyOf(privateKey) == IF privateKey = "privA" THEN "pubA" ELSE "pubB"

\* verifier.update(payload); verifier.verify(publicKey, signature)
CryptoVerify(publicKey, text, signature) ==
  /\ ~signature.altered
  /\ signature.by \in PrivateKeys
  /\ publicKeyOf(signature.by) = publicKey
  /\ signature.text = text

\* toString("base64url"): a segment is written as the bytes it encodes, the
\* bits of its last character that encode nothing (0 as the encoder writes
\* them) and whether it holds characters outside the alphabet
Base64urlEncode(bytes) == [bytes |-> bytes, slack |-> 0, junk |-> FALSE]

\* Buffer.from(segment, "base64url"): never throws; the bits that encode
\* nothing are dropped, characters outside the alphabet give other bytes
Base64urlDecode(segment) ==
  IF segment.junk THEN [segment.bytes EXCEPT !.altered = TRUE] ELSE segment.bytes

\* verifyToken without the try and catch around decoding and JSON.parse
verifyTokenParts_NoCatch(token, publicKey) ==
  IF publicKey = NoKey
  THEN [result |-> NoResult, err |-> "PUBLIC_KEY environment variable is required"]
  ELSE IF Len(token) # 2 THEN [result |-> Invalid, err |-> ""]
  ELSE LET payload == Utf8ToString(Base64urlDecode(token[1]))
           signature == Base64urlDecode(token[2])
       IN IF ~CryptoVerify(publicKey, payload, signature)
          THEN [result |-> Invalid, err |-> ""]
          ELSE IF JsonParse(payload).threw
               THEN [result |-> NoResult, err |-> "SyntaxError"]
          ELSE [result |-> JsonParse(payload).value, err |-> ""]

\* verifyToken returning the parsed payload without verifier.verify
verifyTokenParts_NoVerify(token, publicKey) ==
  IF publicKey = NoKey
  THEN [result |-> NoResult, err |-> "PUBLIC_KEY environment variable is required"]
  ELSE IF Len(token) # 2 THEN [result |-> Invalid, err |-> ""]
  ELSE LET payload == Utf8ToString(Base64urlDecode(token[1]))
       IN IF JsonParse(payload).threw
          THEN [result |-> Invalid, err |-> ""]
          ELSE [result |-> JsonParse(payload).value, err |-> ""]

\* verifyToken(token, publicKey), the token given as its parts token.split(".")
verifyTokenParts(token, publicKey) ==
  IF publicKey = NoKey
  THEN [result |-> NoResult, err |-> "PUBLIC_KEY environment variable is required"]
  ELSE IF Len(token) # 2 THEN [result |-> Invalid, err |-> ""]
  ELSE LET payload == Utf8ToString(Base64urlDecode(token[1]))
           signature == Base64urlDecode(token[2])
       IN IF ~CryptoVerify(publicKey, payload, signature)
          THEN [result |-> Invalid, err |-> ""]
          ELSE IF JsonParse(payload).threw
               THEN [result |-> Invalid, err |-> ""]
          ELSE [result |-> JsonParse(payload).value, err |-> ""]

\* generateToken(name, date, privateKey)
generateToken(name, date, privateKey) ==
  LET payload == JsonStringify([name |-> name, date |-> date])
  IN <<Base64urlEncode(Utf8(payload)), Base64urlEncode(Signature(payload, privateKey))>>

\* the segments of the tokens a client may present
SegmentChoices ==
  LET texts == {JsonStringify([name |-> "alice", date |-> "d1"]), NotJson, JsonNull}
  IN {Base64urlEncode(Utf8(t)) : t \in texts}
       \cup {Base64urlEncode(Signature(t, "privA")) : t \in texts}
       \cup {[bytes |-> Signature(JsonStringify([name |-> "alice", date |-> "d1"]), "privA"),
              slack |-> 0, junk |-> TRUE]}

\* the tokens a client may present: one, two or three segments
TokenChoices ==
  UNION {[1..n -> SegmentChoices] : n \in 1..3}

\* a token is signed for a payload
TokenSign(p, privateKey) ==
  /\ tokenCall = NoTokenCall
  /\ tokenCall' = [NoTokenCall EXCEPT !.pc = "signed",
                     !.token = generateToken(p.name, p.date, privateKey),
                     !.payload = PayloadResult(p), !.key = privateKey]

\* one byte of a segment of the signed token is altered: a character that
\* changes a byte of what the segment encodes ("byte"), or the last character
\* in the bits that encode nothing ("bits")
TokenAlter(i, how) ==
  /\ tokenCall.pc = "signed"
  /\ tokenCall.altered = "none"
  /\ tokenCall' = [tokenCall EXCEPT
       !.altered = how,
       !.token[i] = IF how = "byte"
                    THEN [@ EXCEPT !.bytes.altered = TRUE]
                    ELSE [@ EXCEPT !.slack = 1]]

\* a client presents a token of its own making
TokenSubmit(token) ==
  /\ tokenCall = NoTokenCall
  /\ tokenCall' = [NoTokenCall EXCEPT !.pc = "made", !.token = token]

\* verifyToken(token, ctx.env.PUBLIC_KEY)
TokenVerify(publicKey) ==
  LET r == verifyTokenParts(tokenCall.token, publicKey)
  IN /\ tokenCall.pc \in {"signed", "made"}
     /\ tokenCall' = [tokenCall EXCEPT !.pc = "verified", !.publicKey = publicKey,
                        !.result = r.result, !.err = r.err]

\* String(error) of an Error with the given message
ErrorString(message) == <<"Error: ", message>>

\* getVerifiedToken around verifyToken: the error the handler throws, "" when
\* it goes on with the token
HandlerError(result, err) ==
  IF err # "" THEN err
  ELSE IF result = Invalid THEN "Invalid token"
  ELSE ""

\* expressHandler and the worker handler: res.json(result), or in the catch
\* status 500 with { error: String(error) }
TokenRespond ==
  LET e == HandlerError(tokenCall.result, tokenCall.err)
  IN /\ tokenCall.pc = "verified"
     /\ tokenCall' = [tokenCall EXCEPT !.pc = "responded",
          !.response = IF e # "" THEN [status |-> 500, error |-> ErrorString(e)]
                       ELSE [status |-> 200, error |-> <<>>]]

\* the caller has the outcome
TokenDone ==
  /\ tokenCall.pc \in {"verified", "responded"}
  /\ tokenCall' = NoTokenCall

\* signing, altering and verifying tokens, one at a time
NextToken ==
  \/ \E p \in Payloads, k \in PrivateKeys :
       TokenSign(p, k) /\ UNCHANGED <<apiVars, hubVars, listVars, kvVars, attackVars, equivVars, clientVars>>
  \/ \E i \in 1..2, how \in {"byte", "bits"} :
       TokenAlter(i, how) /\ UNCHANGED <<apiVars, hubVars, listVars, kvVars, attackVars, equivVars, clientVars>>
  \/ \E t \in TokenChoices : TokenSubmit(t) /\ UNCHANGED <<apiVars, hubVars, listVars, kvVars, attackVars, equivVars, clientVars>>
  \/ \E k \in PublicKeys : TokenVerify(k) /\ UNCHANGED <<apiVars, hubVars, listVars, kvVars, attackVars, equivVars, clientVars>>
  \/ TokenRespond /\ UNCHANGED <<apiVars, hubVars, listVars, kvVars, attackVars, equivVars, clientVars>>
  \/ TokenDone /\ UNCHANGED <<apiVars, hubVars, listVars, kvVars, attackVars, equivVars, clientVars>>

SpecToken == Init /\ [][NextToken]_vars

\* ------------------------------------------------- a party in the user role
\* the identifiers newSession generated for the session of a host
VictimSid == "v"
VictimHostUid == "h"

\* the session record newSession stored for a host whose host token and user
\* token differ
VictimSession == SessionData("tA", "tB", VictimSid, "https://a", "https://w", "wss://w")

\* the state newSession of that host leaves: the Host record, the session
\* under the host token and under its sessionUid, the host's uid cookie; the
\* party knows the sessionUid and the user token, what getSession hands out
InitAttack ==
  /\ backend \in Backends
  /\ sessionStore = [k \in KeySpace \cup {VictimSid} |->
                       IF k \in {"tA", VictimSid} THEN <<VictimSession>> ELSE <<>>]
  /\ hostStore = [k \in KeySpace |->
                    IF k = "tA" THEN <<[token |-> "tA", uid |-> VictimHostUid]>> ELSE <<>>]
  /\ userStore = [k \in KeySpace |-> <<>>]
  /\ reactionStore = [k \in KeySpace |-> <<>>]
  /\ nextId = 1
  /\ jar = [c \in Callers |->
              IF c = "c1" THEN [uid |-> VictimHostUid, token |-> "tA",
                                via |-> "newSession", sid |-> VictimSid]
              ELSE EmptyJar]
  /\ last = NoCall
  /\ calls = [c \in Callers |-> Idle]
  /\ connections = [k \in HubSids |-> <<>>]
  /\ readyState = [s \in Sockets |-> "none"]
  /\ sockConn = [s \in Sockets |-> NoConn]
  /\ inbox = [s \in Sockets |-> <<>>]
  /\ hubLast = NoEvent
  /\ listCalls = <<>>
  /\ listLast = NoList
  /\ reactionKv = {}
  /\ kvLast = NoKvCall
  /\ tokenCall = NoTokenCall
  /\ known = {"tB", VictimSid}
  /\ documents = <<>>
  /\ equivLast = NoEquivCall
  /\ clientUid = FALSE
  /\ clientWs = NoSocket
  /\ wsState = [s \in ClientSockets |-> "none"]
  /\ reconnectAttempts = 0
  /\ reconnectTimeout = NoTimer
  /\ timers = {}
  /\ timerCount = 0
  /\ intentionallyClosed = FALSE
  /\ clientLast = [op |-> "none", disconnected |-> FALSE]

\* the tokens and identifiers a response hands to its caller
Heard(answer) ==
  IF answer.err # "" \/ answer.ret = <<>> THEN {}
  ELSE IF answer.op = "newSession" THEN {answer.ret[1], answer.ret[2], answer.ret[3]}
  ELSE IF answer.op = "login" THEN {answer.ret[1]}
  ELSE IF answer.op = "getState"
       THEN {answer.ret[1].token, answer.ret[1].userToken, answer.ret[1].uid}
  ELSE IF answer.op = "getSession" THEN {answer.ret[1].userToken}
  ELSE {}

\* the party keeps what the response to its request handed to it
Hears == known' = known \cup Heard(last')

\* what the party can put into a request: a token it was handed or none, a
\* uid it was issued or one of its own making, a sessionUid path parameter
\* out of the identifiers it was handed
PartyCreds == (known \cap SignedTokens) \cup {NoToken}
PartyUids == (known \cap IdSet) \cup {Forged}
PartySids == (known \ SignedTokens) \cup {NoSuch}

\* the requests of the party, one at a time; only login is sent without a
\* uid cookie, and react names the uid of the cookie it carries
NextAttack ==
  \/ \E cred \in PartyCreds, ut \in known \cap SignedTokens,
        a \in ApiUrls, w \in WebUiUrls, ws \in WsUrls :
       NewSession("c2", cred, ut, a, w, ws) /\ Hears
         /\ UNCHANGED <<hubVars, listVars, kvVars, tokenVars, equivVars, clientVars>>
  \/ \E cred \in PartyCreds, ck \in PartyUids \cup {NoUid}, sid \in PartySids :
       Login("c2", cred, ck, sid) /\ Hears
         /\ UNCHANGED <<hubVars, listVars, kvVars, tokenVars, equivVars, clientVars>>
  \/ \E cred \in PartyCreds, ck \in PartyUids, sid \in PartySids :
       GetState(cred, ck, sid) /\ Hears
         /\ UNCHANGED <<hubVars, listVars, kvVars, tokenVars, equivVars, clientVars>>
  \/ \E sid \in PartySids :
       GetSession(sid) /\ Hears /\ UNCHANGED <<hubVars, listVars, kvVars, tokenVars, equivVars, clientVars>>
  \/ \E cred \in PartyCreds, ck \in PartyUids, sid \in PartySids,
        p \in ReactPages, re \in Reactions :
       React(cred, ck, sid, ck, p, re) /\ Hears
         /\ UNCHANGED <<hubVars, listVars, kvVars, tokenVars, equivVars, clientVars>>
  \/ \E cred \in PartyCreds, ck \in PartyUids, sid \in PartySids,
        p \in Pages, st \in States :
       SetState(cred, ck, sid, p, st) /\ Hears
         /\ UNCHANGED <<hubVars, listVars, kvVars, tokenVars, equivVars, clientVars>>
  \/ Respond /\ UNCHANGED <<hubVars, listVars, kvVars, tokenVars, attackVars, equivVars, clientVars>>

SpecAttack == InitAttack /\ [][NextAttack]_vars

\* ------------------------------------------------- store on Cloudflare KV
\* the keys a session is stored under and the documents stored under them
KvStoreKeys == {"tA", "2"}
KvStoreDocs ==
  {[SessionData("tA", "tB", "2", "https://a", "https://w", "wss://w")
      EXCEPT !.page = p, !.state = st] : p \in {"0", "1"}, st \in {"init", "voting"}}

\* the store calls in progress on key
KvStoring(key) == {c \in Callers : calls[c] # Idle /\ calls[c].pc # "store:done"
                                     /\ calls[c].key = key}

\* store(key, doc) is invoked on the worker
KvStoreStart(c, key, doc) ==
  /\ backend = "kv"
  /\ calls[c] = Idle
  /\ Len(sessionStore[key]) + Cardinality(KvStoring(key)) < MaxHist
  /\ calls' = [calls EXCEPT ![c] =
       [pc |-> "store:get", key |-> key, doc |-> doc, existing |-> <<>>]]
  /\ UNCHANGED <<backend, stores, nextId, jar, last>>

\* existing = await kv.get(key, "json") || []
KvStoreGet(c) ==
  /\ calls[c] # Idle
  /\ calls[c].pc = "store:get"
  /\ calls' = [calls EXCEPT ![c] =
       [calls[c] EXCEPT !.pc = "store:put", !.existing = sessionStore[calls[c].key]]]
  /\ UNCHANGED <<backend, stores, nextId, jar, last>>

\* existing.unshift(doc); await kv.put(key, JSON.stringify(existing));
\* return { success: true }
KvStorePut(c) ==
  /\ calls[c] # Idle
  /\ calls[c].pc = "store:put"
  /\ sessionStore' = [sessionStore EXCEPT ![calls[c].key] =
                        <<calls[c].doc>> \o calls[c].existing]
  /\ calls' = [calls EXCEPT ![c] = [calls[c] EXCEPT !.pc = "store:done"]]
  /\ UNCHANGED <<backend, hostStore, userStore, reactionStore, nextId, jar, last>>

\* the caller has the outcome
KvStoreDone(c) ==
  /\ calls[c] # Idle
  /\ calls[c].pc = "store:done"
  /\ calls' = [calls EXCEPT ![c] = Idle]
  /\ UNCHANGED <<backend, stores, nextId, jar, last>>

\* store calls on the KV session store, interleaved at their awaits
NextKvStore ==
  \/ \E c \in Callers, key \in KvStoreKeys, doc \in KvStoreDocs :
       KvStoreStart(c, key, doc)
         /\ UNCHANGED <<hubVars, listVars, kvVars, tokenVars, attackVars, equivVars, clientVars>>
  \/ \E c \in Callers :
       KvStoreGet(c) /\ UNCHANGED <<hubVars, listVars, kvVars, tokenVars, attackVars, equivVars, clientVars>>
  \/ \E c \in Callers :
       KvStorePut(c) /\ UNCHANGED <<hubVars, listVars, kvVars, tokenVars, attackVars, equivVars, clientVars>>
  \/ \E c \in Callers :
       KvStoreDone(c) /\ UNCHANGED <<hubVars, listVars, kvVars, tokenVars, attackVars, equivVars, clientVars>>

SpecKvStore == Init /\ [][NextKvStore]_vars

\* ------------------------------------------------- reaction store backends
\* texts are written as the sequence of their characters; the values the
\* index fields and the id of a reaction take, some of them a textual prefix
\* of another
EquivValues == [sessionUid |-> {<<"2">>, <<"2", "2">>}, page |-> {<<"1">>, <<"1", "0">>},
                uid |-> {<<"3">>}, id |-> {<<"a">>, <<"b">>, <<"c">>}]

\* the keys store is called with
EquivKeys == [sessionUid : EquivValues.sessionUid, page : EquivValues.page,
              uid : EquivValues.uid, id : EquivValues.id]

\* the filters argument of list: undefined, or an object with a value for
\* some of the index fields
EquivFilterChoices ==
  {[given |-> FALSE, obj |-> <<>>]}
    \cup {[given |-> TRUE, obj |-> o] :
            o \in {g \in UNION {[S -> UNION {EquivValues[f] : f \in S}] :
                                   S \in SUBSET {"sessionUid", "page", "uid"}} :
                     \A f \in DOMAIN g : g[f] \in EquivValues[f]}}

\* the text of a storage key: its parts joined by INDEX_SEPARATOR
RECURSIVE JoinParts(_)
JoinParts(parts) ==
  IF Len(parts) = 0 THEN <<>>
  ELSE IF Len(parts) = 1 THEN parts[1]
  ELSE parts[1] \o <<":">> \o JoinParts(Tail(parts))

\* the text of a list prefix: every part followed by INDEX_SEPARATOR, so that
\* a filter value stands for a whole field of the storage key
RECURSIVE PrefixParts(_)
PrefixParts(parts) ==
  IF Len(parts) = 0 THEN <<>>
  ELSE parts[1] \o <<":">> \o PrefixParts(Tail(parts))

\* kv.list({ prefix }): the key name starts with the prefix
StartsWith(name, prefix) ==
  Len(prefix) <= Len(name) /\ SubSeq(name, 1, Len(prefix)) = prefix

\* the document of a reaction stored under key
EquivDoc(key, reaction) ==
  [sessionUid |-> key.sessionUid, page |-> key.page, uid |-> key.uid,
   reaction |-> reaction]

\* list of the PostgreSQL store matching data->>'key' LIKE value || '%'
PgList_Like(filters) ==
  {documents[i].data : i \in {j \in 1..Len(documents) :
     ~filters.given \/ \A f \in DOMAIN filters.obj :
                         StartsWith(documents[j].data[f], filters.obj[f])}}

\* list of the PostgreSQL store: every row when there are no filters, else
\* the rows with data->>'key' = value for every entry of the filters
PgList(filters) ==
  {documents[i].data : i \in {j \in 1..Len(documents) :
     ~filters.given \/ \A f \in DOMAIN filters.obj :
                         documents[j].data[f] = filters.obj[f]}}

\* list of the KV store: the documents under the keys kv.list returns
KvListText(prefix) ==
  {e.doc : e \in {x \in reactionKv : StartsWith(x.key, prefix)}}

\* store(key, doc) with an id not stored before, on both stores: kv.put under
\* the storage key, INSERT INTO documents with key.id
EquivStore(key, reaction) ==
  LET storageKey == JoinParts(buildStorageKey(key, ReactionIndices))
      doc == EquivDoc(key, reaction)
  IN /\ equivLast = NoEquivCall
     /\ \A i \in 1..Len(documents) : documents[i].key # key.id
     /\ reactionKv' = {e \in reactionKv : e.key # storageKey}
                        \cup {[key |-> storageKey, doc |-> doc]}
     /\ documents' = Append(documents, [key |-> key.id, data |-> doc])
     /\ equivLast' = [NoEquivCall EXCEPT !.op = "store"]

\* list(filters) on both stores; the order of the documents is left out
EquivList(filters) ==
  LET built == buildListPrefix(filters, ReactionIndices)
      e == KvListError(built.usedAll)
  IN /\ equivLast = NoEquivCall
     /\ equivLast' = [op |-> "list", filters |-> filters, kvErr |-> e,
                      kv |-> IF e # "" THEN {}
                             ELSE KvListText(PrefixParts(built.prefix)),
                      pg |-> PgList(filters)]
     /\ UNCHANGED <<reactionKv, documents>>

\* the caller has the outcome
EquivDone ==
  /\ equivLast # NoEquivCall
  /\ equivLast' = NoEquivCall
  /\ UNCHANGED <<reactionKv, documents>>

\* the same calls on the PostgreSQL and the KV reaction store
NextEquiv ==
  \/ \E key \in EquivKeys, re \in Reactions :
       EquivStore(key, re)
         /\ UNCHANGED <<apiVars, hubVars, listVars, kvLast, tokenVars, attackVars, clientVars>>
  \/ \E f \in EquivFilterChoices :
       EquivList(f) /\ UNCHANGED <<apiVars, hubVars, listVars, kvLast, tokenVars, attackVars, clientVars>>
  \/ EquivDone /\ UNCHANGED <<apiVars, hubVars, listVars, kvLast, tokenVars, attackVars, clientVars>>

SpecEquiv == Init /\ [][NextEquiv]_vars

\* ------------------------------------------------- RevintClient
\* the socket `new WebSocket(url)` creates next
NextSocket == Cardinality({s \in ClientSockets : wsState[s] # "none"}) + 1

\* createWebSocket: nothing without a uid, else a new socket that replaces this.ws
createWebSocket ==
  IF ~clientUid
  THEN UNCHANGED <<clientWs, wsState>>
  ELSE /\ NextSocket \in ClientSockets
       /\ wsState' = [wsState EXCEPT ![NextSocket] = "connecting"]
       /\ clientWs' = NextSocket

\* scheduleReconnect without the limit on the attempts
scheduleReconnect_NoLimit ==
  /\ timerCount < MaxTimers
  /\ reconnectAttempts' = reconnectAttempts + 1
  /\ timerCount' = timerCount + 1
  /\ timers' = timers \cup {timerCount + 1}
  /\ reconnectTimeout' = timerCount + 1

\* scheduleReconnect: gives up at maxReconnectAttempts, else counts the attempt
\* and sets a timer whose handle overwrites this.reconnectTimeout
scheduleReconnect ==
  IF reconnectAttempts >= maxReconnectAttempts
  THEN UNCHANGED <<reconnectAttempts, reconnectTimeout, timers, timerCount>>
  ELSE /\ timerCount < MaxTimers
       /\ reconnectAttempts' = reconnectAttempts + 1
       /\ timerCount' = timerCount + 1
       /\ timers' = timers \cup {timerCount + 1}
       /\ reconnectTimeout' = timerCount + 1

\* login() succeeds and sets this.uid
ClientLogin ==
  /\ ~clientUid
  /\ clientUid' = TRUE
  /\ clientLast' = [clientLast EXCEPT !.op = "login"]
  /\ UNCHANGED <<clientWs, wsState, reconnectAttempts, reconnectTimeout,
                 timers, timerCount, intentionallyClosed>>

\* connect(): throws without a uid, returns when this.ws is OPEN, else clears
\* intentionallyClosed and creates a socket
ClientConnect ==
  /\ clientLast' = [op |-> "connect", disconnected |-> FALSE]
  /\ IF ~clientUid \/ (clientWs # NoSocket /\ wsState[clientWs] = "open")
     THEN UNCHANGED <<clientWs, wsState, intentionallyClosed>>
     ELSE /\ intentionallyClosed' = FALSE
          /\ createWebSocket
  /\ UNCHANGED <<clientUid, reconnectAttempts, reconnectTimeout, timers, timerCount>>

\* ws.onopen: the socket is open, the attempts start again from 0
onopen(s) ==
  /\ wsState[s] = "connecting"
  /\ wsState' = [wsState EXCEPT ![s] = "open"]
  /\ reconnectAttempts' = 0
  /\ clientLast' = [clientLast EXCEPT !.op = "open"]
  /\ UNCHANGED <<clientUid, clientWs, reconnectTimeout, timers, timerCount,
                 intentionallyClosed>>

\* ws.onclose: the socket is closed; unless the close was intended a reconnect
\* is scheduled
onclose(s) ==
  /\ wsState[s] \in {"connecting", "open", "closing"}
  /\ wsState' = [wsState EXCEPT ![s] = "closed"]
  /\ IF ~intentionallyClosed /\ autoReconnect
     THEN scheduleReconnect
     ELSE UNCHANGED <<reconnectAttempts, reconnectTimeout, timers, timerCount>>
  /\ clientLast' = [clientLast EXCEPT !.op = "close"]
  /\ UNCHANGED <<clientUid, clientWs, intentionallyClosed>>

\* the callback of a timer set by scheduleReconnect: createWebSocket
ReconnectTimer(t) ==
  /\ t \in timers
  /\ timers' = timers \ {t}
  /\ createWebSocket
  /\ clientLast' = [clientLast EXCEPT !.op = "timer"]
  /\ UNCHANGED <<clientUid, reconnectAttempts, reconnectTimeout, timerCount,
                 intentionallyClosed>>

\* disconnect(): sets intentionallyClosed, clears the timer this.reconnectTimeout
\* names, closes this.ws and forgets it
ClientDisconnect ==
  /\ intentionallyClosed' = TRUE
  /\ timers' = timers \ {reconnectTimeout}
  /\ reconnectTimeout' = NoTimer
  /\ wsState' = IF clientWs # NoSocket /\ wsState[clientWs] \in {"connecting", "open"}
                THEN [wsState EXCEPT ![clientWs] = "closing"]
                ELSE wsState
  /\ clientWs' = NoSocket
  /\ clientLast' = [op |-> "disconnect", disconnected |-> TRUE]
  /\ UNCHANGED <<clientUid, reconnectAttempts, timerCount>>

NextClient ==
  \/ ClientLogin /\ UNCHANGED <<apiVars, hubVars, listVars, kvVars, tokenVars, attackVars, equivVars>>
  \/ ClientConnect /\ UNCHANGED <<apiVars, hubVars, listVars, kvVars, tokenVars, attackVars, equivVars>>
  \/ ClientDisconnect /\ UNCHANGED <<apiVars, hubVars, listVars, kvVars, tokenVars, attackVars, equivVars>>
  \/ \E s \in ClientSockets :
       onopen(s) /\ UNCHANGED <<apiVars, hubVars, listVars, kvVars, tokenVars, attackVars, equivVars>>
  \/ \E s \in ClientSockets :
       onclose(s) /\ UNCHANGED <<apiVars, hubVars, listVars, kvVars, tokenVars, attackVars, equivVars>>
  \/ \E t \in 1..MaxTimers :
       ReconnectTimer(t) /\ UNCHANGED <<apiVars, hubVars, listVars, kvVars, tokenVars, attackVars, equivVars>>

SpecClient == Init /\ [][NextClient]_vars

\* ---------------------------------------------------------------- claims
\* a session record is stored under sessionUid
HasSession(sid) == sid \in DOMAIN sessionStore /\ Len(sessionStore[sid]) > 0

\* a Host record (token, uid) is in the host store
RegisteredHost(token, uid) ==
  token \in DOMAIN hostStore /\ \E i \in 1..Len(hostStore[token]) : hostStore[token][i] = [token |-> token, uid |-> uid]

\* a User record (token, uid) is in the user store
RegisteredUser(token, uid) ==
  token \in DOMAIN userStore /\ \E i \in 1..Len(userStore[token]) : userStore[token][i] = [token |-> token, uid |-> uid]

\* C1: host and user proofs are separate. No request carrying the session's
\* host token is answered with success by a user-scoped operation (login,
\* react), and none carrying the session's user token by the host-scoped
\* setState; so no credential satisfies both resolutions of one session.
C1_HostUserSeparate ==
  /\ (HasSession(last.sid) /\ last.op \in {"login", "react"}
        /\ last.cred = sessionStore[last.sid][1].token) => last.err # ""
  /\ (HasSession(last.sid) /\ last.op = "setState"
        /\ last.cred = sessionStore[last.sid][1].userToken) => last.err # ""

\* C2: setState on an existing session with the session's user credential
\* (not its host credential) fails with "Token does not match session",
\* whatever uid cookie it carries, and leaves the session store as it was.
C2_SetStateAsUserRejected ==
  [][(last = NoCall /\ last'.op = "setState" /\ HasSession(last'.sid)
        /\ last'.cred = sessionStore[last'.sid][1].userToken
        /\ last'.cred # sessionStore[last'.sid][1].token)
      => (last'.err = "Token does not match session" /\ sessionStore' = sessionStore)]_vars

\* C2 witness: a setState carrying the user token and the uid of the
\* session's registered host was rejected
C2_Witness ==
  /\ last.op = "setState" /\ HasSession(last.sid)
  /\ last.cred = sessionStore[last.sid][1].userToken
  /\ last.cred # sessionStore[last.sid][1].token
  /\ RegisteredHost(sessionStore[last.sid][1].token, last.cookie)
  /\ last.err = "Token does not match session"

\* C3: setState succeeds only with the session's host token and the uid cookie
\* of a Host registered under that token; with the host token and an absent or
\* unregistered uid it is rejected ("only host can set state") and the session
\* store is not modified.
C3_SetStateNeedsRegisteredHost ==
  [][(last = NoCall /\ last'.op = "setState")
      => /\ last'.err = "" =>
              /\ HasSession(last'.sid)
              /\ last'.cred = sessionStore[last'.sid][1].token
              /\ RegisteredHost(last'.cred, last'.cookie)
         /\ (HasSession(last'.sid) /\ last'.cred = sessionStore[last'.sid][1].token
               /\ ~RegisteredHost(last'.cred, last'.cookie))
              => /\ last'.err = "Not authorized: only host can set state"
                 /\ sessionStore' = sessionStore]_vars

\* C3 witness: a setState with the host token and a uid that is not a
\* registered host's was rejected
C3_Witness ==
  /\ last.op = "setState" /\ HasSession(last.sid)
  /\ last.cred = sessionStore[last.sid][1].token
  /\ ~RegisteredHost(last.cred, last.cookie)
  /\ last.err = "Not authorized: only host can set state"

\* C4: getState returns the session only when the credential is the session's
\* host token and the uid cookie that of a Host registered under it, or the
\* credential is the session's user token and the uid cookie that of a User
\* registered under it; otherwise it fails and returns no session data.
C4_GetStateNeedsRegistration ==
  last.op = "getState" =>
    /\ last.err = "" =>
         /\ HasSession(last.sid)
         /\ last.cookie # NoUid
         /\ \/ /\ last.cred = sessionStore[last.sid][1].token
               /\ RegisteredHost(last.cred, last.cookie)
            \/ /\ last.cred = sessionStore[last.sid][1].userToken
               /\ RegisteredUser(last.cred, last.cookie)
         /\ last.ret = <<sessionStore[last.sid][1]>>
    /\ last.err # "" => last.ret = <<>>

\* C4 witness: getState answered a logged-in user with the session
C4_Witness ==
  /\ last.op = "getState" /\ last.err = "" /\ HasSession(last.sid)
  /\ last.cred = sessionStore[last.sid][1].userToken
  /\ last.cred # sessionStore[last.sid][1].token
  /\ RegisteredUser(last.cred, last.cookie)

\* C5: react stores a reaction only if the credential is the session's user
\* token, the uid cookie is present and equals the uid argument, and that uid
\* is a User registered under the user token; otherwise it fails and the
\* reaction store is unchanged.
C5_ReactNeedsMatchingRegisteredUid ==
  [][(last = NoCall /\ last'.op = "react")
      => /\ last'.err = "" =>
              /\ HasSession(last'.sid)
              /\ last'.cred = sessionStore[last'.sid][1].userToken
              /\ last'.cookie # NoUid
              /\ last'.cookie = last'.arg[1]
              /\ RegisteredUser(last'.cred, last'.arg[1])
         /\ last'.err # "" => reactionStore' = reactionStore]_vars

\* C5 witness: a reaction of a registered user was recorded
C5_Witness ==
  /\ last.op = "react" /\ last.err = ""
  /\ \E i \in 1..Len(reactionStore[last.cred]) :
       reactionStore[last.cred][i].uid = last.arg[1]

\* C6: getState with the user token and no uid cookie is rejected with "must
\* be logged in"; once a caller without a marker has logged in to session S
\* (whose user token is not also its host token) and sends the uid cookie
\* login set on it, getState(S) with the user token succeeds, whatever
\* requests were answered in between.
C6_LoginThenGetState ==
  /\ (last.op = "getState" /\ last.cookie = NoUid)
       => last.err = "Not authorized: must be logged in"
  /\ \A c \in Callers :
       (jar[c].via = "login" /\ last.op = "getState" /\ last.sid = jar[c].sid
          /\ last.cred = jar[c].token /\ last.cookie = jar[c].uid
          /\ sessionStore[last.sid][1].token # last.cred)
         => last.err = ""

\* the number of User records (token, uid) in the user store
UserRecords(token, uid) ==
  Cardinality({i \in 1..Len(userStore[token]) : userStore[token][i].uid = uid})

\* C7: login with an identity marker (a uid cookie the API issued) returns the
\* marker's uid, and exactly one User record exists for (user token, uid).
C7_LoginIdempotent ==
  (last.op = "login" /\ last.err = "" /\ \E c \in Callers : jar[c].uid = last.cookie
     /\ last.cookie # NoUid)
    => /\ last.ret = <<last.cookie>>
       /\ UserRecords(last.cred, last.cookie) = 1

\* C8: a successful login with a uid cookie returns that uid and changes
\* nothing (no store write, no cookie); one without a uid cookie returns a uid
\* not seen before, stores the User record and sets the cookie on the caller.
C8_LoginReusesMarker ==
  [][(last = NoCall /\ last'.op = "login" /\ last'.err = "")
      => IF last'.cookie # NoUid
         THEN /\ last'.ret = <<last'.cookie>>
              /\ UNCHANGED <<sessionStore, hostStore, userStore, reactionStore, nextId, jar>>
         ELSE /\ Len(last'.ret) = 1
              /\ \A c \in Callers : jar[c].uid # last'.ret[1]
              /\ \A k \in DOMAIN userStore : \A i \in 1..Len(userStore[k]) :
                   userStore[k][i].uid # last'.ret[1]
              /\ \A k \in DOMAIN hostStore : \A i \in 1..Len(hostStore[k]) :
                   hostStore[k][i].uid # last'.ret[1]
              /\ \E i \in 1..Len(userStore'[last'.cred]) :
                   userStore'[last'.cred][i] = [token |-> last'.cred, uid |-> last'.ret[1]]
              /\ \E c \in Callers : jar'[c].uid = last'.ret[1] /\ jar'[c].token = last'.cred]_vars

\* C8 witness: login answered a caller carrying a registered user's marker
\* with that uid
C8_Witness ==
  /\ last.op = "login" /\ last.err = "" /\ last.cookie # NoUid
  /\ last.ret = <<last.cookie>>
  /\ RegisteredUser(last.cred, last.cookie)

\* the reactions in store st that a list filtered by the session's user
\* token, page and uid returns for the given reaction
MatchingReactions(st, token, uid, page, reaction) ==
  {e \in {<<k, i>> : k \in DOMAIN st, i \in 1..MaxHist} :
     /\ e[2] <= Len(st[e[1]])
     /\ st[e[1]][e[2]] = [token |-> token, uid |-> uid, page |-> page, reaction |-> reaction]}

\* C9: reactions are multiplicity-preserving: every successful react adds one
\* entry to the reactions listed for its (session, page, uid, reaction), so n
\* successful identical calls leave n entries.
C9_ReactionsKept ==
  [][(last = NoCall /\ last'.op = "react" /\ last'.err = "")
      => Cardinality(MatchingReactions(reactionStore', last'.cred, last'.arg[1],
                                       last'.arg[2], last'.arg[3]))
         = Cardinality(MatchingReactions(reactionStore, last'.cred, last'.arg[1],
                                         last'.arg[2], last'.arg[3])) + 1]_vars

\* C10: the two stored copies of a session do not diverge: whenever no
\* newSession or setState call is in progress, the record read under a
\* session's host token equals the record read under its sessionUid.
C10_CopiesInSync ==
  (\A c \in Callers : calls[c] = Idle)
    => \A sid \in IdSet :
         (HasSession(sid) /\ sessionStore[sid][1].uid = sid)
           => sessionStore[sessionStore[sid][1].token][1] = sessionStore[sid][1]

\* the fields of a Session record that newSession writes and nothing may change
Immutable(doc) ==
  [token |-> doc.token, userToken |-> doc.userToken, uid |-> doc.uid,
   apiUrl |-> doc.apiUrl, webUiUrl |-> doc.webUiUrl, wsUrl |-> doc.wsUrl]

\* the fields of a Session record that setState writes
PageState(doc) == <<doc.page, doc.state>>

\* C11: only page/state of a session ever change. In every step, for every
\* session created so far, the record read under its sessionUid and the record
\* read under its host token keep token, userToken, uid, apiUrl, webUiUrl and
\* wsUrl, and their page/state change only to the values of a successful
\* setState on that session.
C11_OnlyPageStateChange ==
  [][\A sid \in IdSet :
       HasSession(sid) =>
         \A k \in {sid, sessionStore[sid][1].token} :
           /\ Len(sessionStore'[k]) > 0
           /\ Immutable(sessionStore'[k][1]) = Immutable(sessionStore[k][1])
           /\ PageState(sessionStore'[k][1]) # PageState(sessionStore[k][1])
                => /\ last'.op = "setState" /\ last'.err = "" /\ last'.sid = sid
                   /\ PageState(sessionStore'[k][1]) = <<last'.arg[1], last'.arg[2]>>]_vars

\* C12: read-your-writes for session state. A successful setState(sid, p, s)
\* leaves p and s in the record that a lookup under sid yields first, on every
\* backend; no step other than a successful setState on sid changes the page
\* or state of that record; and a successful getState(sid) reports the page
\* and state of that record.
C12_ReadYourWrites ==
  [][/\ (last = NoCall /\ last'.op = "setState" /\ last'.err = "")
          => /\ Len(sessionStore'[last'.sid]) > 0
             /\ PageState(sessionStore'[last'.sid][1]) = <<last'.arg[1], last'.arg[2]>>
     /\ (last = NoCall /\ last'.op = "getState" /\ last'.err = "")
          => /\ Len(last'.ret) = 1
             /\ PageState(last'.ret[1]) = PageState(sessionStore[last'.sid][1])
     /\ \A sid \in IdSet :
          (HasSession(sid)
             /\ ~(last = NoCall /\ last'.op = "setState" /\ last'.err = "" /\ last'.sid = sid))
            => /\ Len(sessionStore'[sid]) > 0
               /\ PageState(sessionStore'[sid][1]) = PageState(sessionStore[sid][1])]_vars

\* C12 witness: on a backend that retains the history of writes, getState
\* reported the page and state of a setState that followed newSession
C12_Witness ==
  /\ last.op = "getState" /\ last.err = ""
  /\ backend # "memory"
  /\ Len(sessionStore[last.sid]) > 1
  /\ PageState(last.ret[1]) = <<"1", "voting">>
  /\ PageState(sessionStore[last.sid][Len(sessionStore[last.sid])]) = <<"0", "init">>

\* the fields of a Session record that getSession publishes
SessionInfo(doc) ==
  [userToken |-> doc.userToken, apiUrl |-> doc.apiUrl,
   webUiUrl |-> doc.webUiUrl, wsUrl |-> doc.wsUrl]

\* C13: round trip newSession -> getSession. Right after a successful
\* newSession({userToken, apiUrl, webUiUrl, wsUrl}) that returned sessionUid,
\* the record getSession(sessionUid) reads has the userToken, apiUrl, webUiUrl
\* and wsUrl that were supplied; and getSession on an existing session
\* returns those fields of the record it reads.
C13_NewSessionGetSession ==
  [][/\ (last = NoCall /\ last'.op = "newSession" /\ last'.err = "")
          => /\ Len(sessionStore'[last'.ret[3]]) > 0
             /\ SessionInfo(sessionStore'[last'.ret[3]][1])
                  = [userToken |-> last'.arg[1], apiUrl |-> last'.arg[2],
                     webUiUrl |-> last'.arg[3], wsUrl |-> last'.arg[4]]
     /\ (last = NoCall /\ last'.op = "getSession" /\ HasSession(last'.sid))
          => last'.ret = <<SessionInfo(sessionStore[last'.sid][1])>>]_vars

\* a user connection of socket s is registered under sessionUid and open
OpenUser(sid, s) ==
  /\ sid \in DOMAIN connections
  /\ \E i \in 1..Len(connections[sid]) :
       connections[sid][i].ws = s /\ connections[sid][i].type = "user"
  /\ readyState[s] = "open"

\* C14: every successful setState(sessionUid, page, state) hands a
\* state_change message with that page and state to every user connection
\* registered and open for the session, as part of the setState call.
C14_SetStateBroadcasts ==
  [][(last = NoCall /\ last'.op = "setState" /\ last'.err = "")
      => \A s \in Sockets :
           OpenUser(last'.sid, s)
             => /\ Len(inbox'[s]) = Len(inbox[s]) + 1
                /\ inbox'[s][Len(inbox'[s])]
                     = Stringify([type |-> "state_change", page |-> last'.arg[1],
                                  state |-> last'.arg[2]])]_vars

\* a step in which the host pipe broadcast a state_change message
BroadcastStep ==
  /\ hubLast = NoEvent
  /\ hubLast'.op = "message"
  /\ sockConn[hubLast'.ws].type = "host"
  /\ hubLast'.data = <<StateChange>>

\* socket s was handed the message of the broadcast of this step
Received(s) == inbox'[s] = Append(inbox[s], Stringify(hubLast'.data[1]))

\* C15: broadcast(sessionUid, message) delivers the message to every
\* registered, open user connection of that session and to nothing else: no
\* host connection and no connection of another sessionUid is handed anything.
C15_BroadcastTargets ==
  [][BroadcastStep
      => \A s \in Sockets :
           IF OpenUser(hubLast'.sid, s) THEN Received(s)
           ELSE inbox'[s] = inbox[s]]_vars

\* C16: broadcast delivery is failure-isolated: when the send to one
\* connection throws, every other open user connection of the session is
\* still handed the message, and the handler that originated the broadcast
\* does not fail.
C16_BroadcastIsolatesFailure ==
  [][BroadcastStep
      => /\ \A s \in Sockets :
              (OpenUser(hubLast'.sid, s) /\ s \notin hubLast'.bad) => Received(s)
         /\ ~hubLast'.threw]_vars

\* C17: deregistration is idempotent. A close or error handler that runs for
\* a connection already taken out of the registry (or whose session bucket is
\* already gone) raises no error and leaves the registry unchanged; and every
\* close or error handler takes out the connection of its own socket alone,
\* leaving every other connection of every session registered.
C17_DeregistrationIdempotent ==
  [][(hubLast = NoEvent /\ hubLast'.op \in {"close", "error"})
      => /\ ~hubLast'.threw
         /\ ~hubLast'.held => connections' = connections
         /\ \A k \in HubSids :
              connections'[k] =
                SelectSeq(connections[k], LAMBDA c : c.ws # hubLast'.ws)]_vars

\* C17 witness: the close handler ran for a socket that its error handler
\* had already taken out of the registry, while another connection of the
\* session stayed registered
C17_Witness ==
  /\ hubLast.op = "close"
  /\ ~hubLast.held
  /\ Len(connections[hubLast.sid]) > 0
  /\ \E s \in Sockets : s # hubLast.ws /\ Registered(hubLast.sid, s)

\* every document that store st holds under a key is still held under that
\* key by store nx
Retains(st, nx) ==
  \A k \in DOMAIN st : \A i \in 1..Len(st[k]) :
    \E j \in 1..Len(nx[k]) : nx[k][j] = st[k][i]

\* C18: Host, User and Reaction records are never mutated or deleted: a Host
\* record registered by newSession, a User record registered by login and a
\* Reaction stored by react stay retrievable from their store through every
\* later operation of any caller.
C18_RecordsKept ==
  [][/\ Retains(hostStore, hostStore')
     /\ Retains(userStore, userStore')
     /\ Retains(reactionStore, reactionStore')]_vars

\* C19: newSession creates a session only when both credentials verify, the
\* header host token and the userToken of the body. When the header token
\* verifies and the body userToken does not, newSession fails with "Invalid
\* user token", an error no header failure produces, and stores no Host
\* record and no Session record, sets no cookie and uses up no identifier.
C19_NewSessionNeedsBothTokens ==
  [][(last = NoCall /\ last'.op = "newSession")
      => /\ last'.err = ""
              => (verifyToken(last'.cred) /\ verifyToken(last'.arg[1]))
         /\ (verifyToken(last'.cred) /\ ~verifyToken(last'.arg[1]))
              => /\ last'.err = "Invalid user token"
                 /\ last'.ret = <<>>
                 /\ UNCHANGED <<hostStore, sessionStore, jar, nextId>>
         /\ ~verifyToken(last'.cred)
              => /\ last'.err \in {"Invalid token", "Missing x-session-token header"}
                 /\ UNCHANGED <<hostStore, sessionStore, jar, nextId>>
         /\ last'.err = ""
              => /\ hostStore' # hostStore
                 /\ sessionStore' # sessionStore]_vars

\* C19 witness: newSession with a verified header token and a body userToken
\* that does not verify was answered with the invalid-user-token error, after
\* an earlier newSession had stored records
C19_Witness ==
  /\ last.op = "newSession"
  /\ verifyToken(last.cred) /\ ~verifyToken(last.arg[1])
  /\ last.err = "Invalid user token"
  /\ \E k \in IdSet : HasSession(k)

\* C20: list(filters) with a non-empty filters argument on a store declared
\* with zero indices fails with the validation error and never reaches the
\* backend, whichever backend is bound.
C20_ListNeedsIndices ==
  [][(listLast = NoList /\ listLast'.done /\ Len(listLast'.indices) = 0
        /\ listLast'.filters.given /\ DOMAIN listLast'.filters.obj # {})
      => /\ listLast'.err = "Cannot filter by fields when no indices are defined for this DataStore"
         /\ ~listLast'.reached
         /\ listCalls' = listCalls]_vars

\* C20 witness: a list filtered by token on a store without indices was
\* answered with the validation error, after a list without filters on the
\* same kind of store had reached the bound backend
C20_Witness ==
  /\ listLast.done /\ Len(listLast.indices) = 0
  /\ listLast.filters.given /\ DOMAIN listLast.filters.obj = {"token"}
  /\ listLast.err # ""
  /\ Len(listCalls) > 0
  /\ listCalls[1].backend = backend

\* the filters name an index field without naming every index field before it
NonPrefix(filters) ==
  /\ filters.given
  /\ \E i, j \in 1..Len(ReactionIndices) :
       /\ i < j
       /\ ReactionIndices[i] \notin DOMAIN filters.obj
       /\ ReactionIndices[j] \in DOMAIN filters.obj

\* C21: on the key-value backend, list with filters whose fields are not a
\* consecutive prefix of the index order sessionUid, page, uid fails with an
\* error and returns no document: neither all entries nor those under the
\* part of the filters a prefix could cover.
C21_KvListNonPrefixFails ==
  [][(kvLast = NoKvCall /\ kvLast'.op = "list" /\ NonPrefix(kvLast'.filters))
      => /\ kvLast'.err # ""
         /\ kvLast'.ret = {}]_vars

\* C21 witness: list({sessionUid, uid}) failed on a store that holds reactions
\* of that session and of another one
C21_Witness ==
  /\ kvLast.op = "list"
  /\ kvLast.filters.given /\ DOMAIN kvLast.filters.obj = {"sessionUid", "uid"}
  /\ kvLast.err # ""
  /\ \E e \in reactionKv : e.doc.sessionUid = kvLast.filters.obj["sessionUid"]
  /\ \E e \in reactionKv : e.doc.sessionUid # kvLast.filters.obj["sessionUid"]

\* document doc carries the index fields sessionUid, page and uid with the
\* given values, and an id
IndexedReaction(doc, sessionUid, page, uid) ==
  /\ {"sessionUid", "page", "uid", "id"} \subseteq DOMAIN doc
  /\ doc.sessionUid = sessionUid /\ doc.page = page /\ doc.uid = uid

\* C22: every Reaction stored by react(sessionUid, uid, page, reaction)
\* carries that sessionUid, page and uid as index fields together with an id
\* no stored reaction had before, and list({sessionUid}) is answered by the
\* reaction store (its filters pass the validation of the store's list), so
\* that it returns the reactions of that session and of no other.
C22_ReactionCarriesIndexFields ==
  [][(last = NoCall /\ last'.op = "react" /\ last'.err = "")
      => /\ ListError(reactionStoreIndices,
                      [given |-> TRUE, obj |-> [f \in {"sessionUid"} |-> last'.sid]]) = ""
         /\ \E k \in DOMAIN reactionStore' : \E i \in 1..Len(reactionStore'[k]) :
              /\ IndexedReaction(reactionStore'[k][i], last'.sid, last'.arg[2], last'.arg[1])
              /\ \A j \in DOMAIN reactionStore : \A n \in 1..Len(reactionStore[j]) :
                   "id" \in DOMAIN reactionStore[j][n]
                     => reactionStore[j][n].id # reactionStore'[k][i].id]_vars

\* the token of the session that an operation's guard compares the header
\* token with: the host token for setState, the user token for login and react
RoleToken(op, session) == IF op = "setState" THEN session.token ELSE session.userToken

\* C23: the authorization guard of login, react and setState classifies
\* failures in a fixed order: a request without the header token fails with
\* the missing-credential error; else a token that does not verify with the
\* invalid-credential error; else an unknown sessionUid with not-found; else a
\* verified token that is not the session's token for the required role with
\* the does-not-match error; and a request that passes all four fails with
\* none of these errors.
C23_GuardOrder ==
  [][(last = NoCall /\ last'.op \in {"login", "react", "setState"})
      => last'.err =
           IF last'.cred = NoToken THEN "Missing x-session-token header"
           ELSE IF ~verifyToken(last'.cred) THEN "Invalid token"
           ELSE IF ~HasSession(last'.sid) THEN "Session not found"
           ELSE IF RoleToken(last'.op, sessionStore[last'.sid][1]) # last'.cred
                THEN "Token does not match session"
           ELSE IF last'.err \in {"Missing x-session-token header", "Invalid token",
                                  "Session not found", "Token does not match session"}
                THEN "" ELSE last'.err]_vars

\* C23 witness: react with a token that does not verify, on an existing
\* session, was answered with the invalid-credential error
C23_Witness ==
  /\ last.op = "react"
  /\ last.cred = BadToken
  /\ HasSession(last.sid)
  /\ last.err = "Invalid token"

\* the header token of the answered request is the host token or the user
\* token of the session it names
CredBound ==
  /\ HasSession(last.sid)
  /\ last.cred \in {sessionStore[last.sid][1].token, sessionStore[last.sid][1].userToken}

\* C24: getState distinguishes its two identity failures. Without a uid
\* cookie it fails with "must be logged in"; with a uid cookie whose uid is
\* neither a Host registered under the session's host token nor a User
\* registered under its user token, and a header token bound to the session,
\* it fails with "user not registered for this session"; and neither error is
\* given in the other's case.
C24_GetStateIdentityFailures ==
  last.op = "getState" =>
    /\ last.cookie = NoUid <=> last.err = "Not authorized: must be logged in"
    /\ (/\ last.cookie # NoUid
        /\ CredBound
        /\ ~RegisteredHost(sessionStore[last.sid][1].token, last.cookie)
        /\ ~RegisteredUser(sessionStore[last.sid][1].userToken, last.cookie))
         => last.err = "Not authorized: user not registered for this session"
    /\ last.err = "Not authorized: user not registered for this session"
         => (last.cookie # NoUid /\ CredBound)

\* C24 witness: getState with the session's user token and a uid cookie that
\* no handler issued was answered with the not-registered error, while a user
\* of the session is registered
C24_Witness ==
  /\ last.op = "getState"
  /\ last.cookie = Forged
  /\ CredBound
  /\ last.cred = sessionStore[last.sid][1].userToken
  /\ Len(userStore[last.cred]) > 0
  /\ last.err = "Not authorized: user not registered for this session"

\* C25: getSession needs no credential and no identity marker: for a
\* sessionUid under which no session exists it returns null without failing,
\* and for an existing session it returns exactly the fields userToken,
\* apiUrl, webUiUrl and wsUrl of that session, and in no field the session's
\* host token.
C25_GetSessionPublicFields ==
  last.op = "getSession" =>
    /\ last.cred = NoToken /\ last.cookie = NoUid
    /\ last.err = ""
    /\ ~HasSession(last.sid) => last.ret = <<>>
    /\ HasSession(last.sid) =>
         /\ Len(last.ret) = 1
         /\ DOMAIN last.ret[1] = {"userToken", "apiUrl", "webUiUrl", "wsUrl"}
         /\ \A f \in DOMAIN last.ret[1] :
              /\ last.ret[1][f] = sessionStore[last.sid][1][f]
              /\ last.ret[1][f] # sessionStore[last.sid][1].token

\* C26: there is one live channel per (sessionUid, role, uid) triple: the
\* connection registry never holds two connections with the same sessionUid,
\* role and uid.
C26_OneChannelPerTriple ==
  \A k \in HubSids : \A i, j \in 1..Len(connections[k]) :
    (connections[k][i].type = connections[k][j].type
       /\ connections[k][i].uid = connections[k][j].uid) => i = j

\* C26 as amended: the registry holds one connection per socket: no socket
\* is registered twice, every connection is registered under the sessionUid
\* of its path and is the one its socket was accepted with, and the socket of
\* a registered connection has not closed.
C26_OneConnectionPerSocket ==
  \A k \in HubSids : \A i \in 1..Len(connections[k]) :
    /\ \A j \in 1..Len(connections[k]) :
         connections[k][i].ws = connections[k][j].ws => i = j
    /\ \A k2 \in HubSids \ {k} : ~Registered(k2, connections[k][i].ws)
    /\ connections[k][i].sessionUid = k
    /\ connections[k][i] = sockConn[connections[k][i].ws]
    /\ readyState[connections[k][i].ws] \in {"open", "closing"}

\* C26 witness: two sockets are registered for one (sessionUid, role, uid)
C26_Witness ==
  \E k \in HubSids : \E i, j \in 1..Len(connections[k]) :
    /\ i # j
    /\ connections[k][i].type = "user" /\ connections[k][j].type = "user"
    /\ connections[k][i].uid = connections[k][j].uid
    /\ connections[k][i].ws # connections[k][j].ws
    /\ readyState[connections[k][i].ws] = "open"
    /\ readyState[connections[k][j].ws] = "open"

\* the token has a structural failure: a number of segments other than two,
\* a segment with characters outside the alphabet, or a payload segment that
\* does not decode to the JSON text of a payload
StructuralFailure(token) ==
  \/ Len(token) # 2
  \/ \E i \in 1..Len(token) : token[i].junk
  \/ token[1].bytes.by # "none"
  \/ token[1].bytes.altered
  \/ \A p \in Payloads : token[1].bytes.text # JsonStringify(p)

\* the second segment of a two-segment token is not the signature of the
\* first by the private key of publicKey
SignatureFailure(token, publicKey) ==
  /\ Len(token) = 2
  /\ \/ token[2].bytes.altered
     \/ token[2].bytes.by = "none"
     \/ token[2].bytes.text # token[1].bytes.text
     \/ \A k \in PrivateKeys :
          publicKeyOf(k) = publicKey => token[2].bytes.by # k

SignedAndMatched ==
  /\ tokenCall.pc = "verified"
  /\ tokenCall.key \in PrivateKeys
  /\ tokenCall.publicKey = publicKeyOf(tokenCall.key)

\* C28: sign/verify round trip. A token signed for a payload verifies
\* against the matching public key and yields that payload; a token whose
\* payload segment or signature segment was altered in any single byte fails
\* verification.
C28_SignVerifyRoundTrip ==
  SignedAndMatched =>
    /\ tokenCall.err = ""
    /\ tokenCall.altered = "none" => tokenCall.result = tokenCall.payload
    /\ tokenCall.altered # "none" => tokenCall.result = Invalid

\* C28 as amended: a signed token verifies against the matching public key
\* and yields its payload; it fails verification when a byte of what its
\* payload segment or its signature segment encodes was altered, or when it is
\* verified against another public key; a segment altered only in the bits of
\* its last character that encode nothing decodes to the same bytes, and the
\* token still verifies and yields the payload.
C28_RoundTripOfDecodedBytes ==
  (tokenCall.pc = "verified" /\ tokenCall.key \in PrivateKeys
     /\ tokenCall.publicKey # NoKey) =>
    /\ tokenCall.err = ""
    /\ tokenCall.result =
         IF tokenCall.publicKey = publicKeyOf(tokenCall.key)
              /\ tokenCall.altered \in {"none", "bits"}
         THEN tokenCall.payload
         ELSE Invalid

\* C28 witness: a signed token whose signature segment had a byte of the
\* signature altered failed verification against the matching public key
C28_Witness ==
  /\ SignedAndMatched
  /\ tokenCall.altered = "byte"
  /\ tokenCall.token[2].bytes.altered
  /\ tokenCall.result = Invalid

\* C29: no privilege escalation from the user role. A party that starts out
\* knowing only the sessionUid and the user token of a session never gets a
\* successful setState on that session, whatever getSession, login, getState,
\* react, newSession and setState requests it makes with uid markers of its
\* own making or as issued to it.
C29_NoEscalation ==
  ~(/\ last.op = "setState"
    /\ last.err = ""
    /\ SessionOf(last.sid).uid = VictimSid)

\* C30: login establishes registration. Whenever login on a session returns
\* a uid, a User record of the session's user token and that uid is in the
\* user store at that moment, whatever uid marker the caller carried.
C30_LoginRegisters ==
  (last.op = "login" /\ last.err = "") =>
    SomeUid(Get(userStore, SessionOf(last.sid).userToken), last.ret[1])

\* C31: a rejected request changes nothing. A newSession, login, react or
\* setState call answered with an error has written to no store, generated
\* no identifier and issued no cookie.
C31_RejectedChangesNothing ==
  [][(last = NoCall
        /\ last'.op \in {"newSession", "login", "react", "setState"}
        /\ last'.err # "")
      => UNCHANGED <<sessionStore, hostStore, userStore, reactionStore, nextId, jar>>]_vars

\* C31 witness: after sessions, users and reactions were stored, a setState
\* with the user token of an existing session was rejected
C31_Witness ==
  /\ last.op = "setState"
  /\ last.err = "Token does not match session"
  /\ HasSession(last.sid)
  /\ \E k \in DOMAIN userStore : Len(userStore[k]) > 0
  /\ \E k \in DOMAIN reactionStore : Len(reactionStore[k]) > 0

\* C32: store on the key-value backend loses no update. When store calls on
\* one key have returned success, get(key) contains the document of each of
\* them, also when the calls ran concurrently.
C32_NoLostUpdate ==
  \A c \in Callers :
    (calls[c] # Idle /\ calls[c].pc = "store:done") =>
      \E i \in 1..Len(Get(sessionStore, calls[c].key)) :
        Get(sessionStore, calls[c].key)[i] = calls[c].doc

\* the host authorization check of setState for the session under sessionUid:
\* the session exists and uid is the uid of a Host record of its host token
HostAuthorized(sessionUid, uid) ==
  /\ HasSession(sessionUid)
  /\ SomeUid(Get(hostStore, SessionOf(sessionUid).token), uid)

\* C33: state-change notifications are authentic. Data is delivered to a
\* socket only by the handling of a message on a connection of that session
\* whose uid passed the host authorization check for the session.
C33_AuthenticStateChange ==
  [][(\E t \in Sockets : inbox'[t] # inbox[t])
      => /\ hubLast'.op = "message"
         /\ HostAuthorized(hubLast'.sid, sockConn[hubLast'.ws].uid)]_vars

\* C34: registry consistency. A socket enters the bucket of a sessionUid
\* exactly when it connects with a valid path for that sessionUid and leaves
\* it exactly when its close or error event is processed; a socket rejected
\* for an invalid path is in no bucket; data is sent only to sockets that are
\* in the bucket of the session and open.
C34_RegistryConsistent ==
  [][\A sid \in HubSids, s \in Sockets :
       /\ (Registered(sid, s)' /\ ~Registered(sid, s))
            <=> (hubLast'.op = "connect" /\ hubLast'.ws = s /\ hubLast'.sid = sid)
       /\ (Registered(sid, s) /\ ~Registered(sid, s)')
            <=> (/\ hubLast'.op \in {"close", "error"}
                 /\ hubLast'.ws = s /\ hubLast'.sid = sid
                 /\ Registered(sid, s))
       /\ (hubLast'.op \in {"close", "error"} /\ hubLast'.ws = s)
            => ~Registered(sid, s)'
       /\ (hubLast'.op = "reject" /\ hubLast'.ws = s) => ~Registered(sid, s)'
       /\ inbox'[s] # inbox[s]
            => (Registered(hubLast'.sid, s) /\ readyState[s] = "open")]_vars

\* C34 witness: the close of a socket has been processed while another socket
\* of the same session stays registered and a third was rejected for its path
C34_Witness ==
  /\ hubLast.op = "close"
  /\ ~Registered(hubLast.sid, hubLast.ws)
  /\ \E s \in Sockets \ {hubLast.ws} :
       /\ Registered(hubLast.sid, s)
       /\ \E t \in Sockets \ {hubLast.ws, s} :
            readyState[t] = "closed" /\ sockConn[t] = NoConn

\* C35: when the core fails with the configuration error (no verification
\* key), the error payload the transport returns does not hold the internal
\* error message verbatim.
C35_ConfigErrorNotLeaked ==
  (tokenCall.pc = "responded"
     /\ tokenCall.err = "PUBLIC_KEY environment variable is required") =>
    \A i \in 1..Len(tokenCall.response.error) :
      tokenCall.response.error[i] # tokenCall.err

\* the stored documents whose index-field values equal the values of filters
MatchingDocs(filters) ==
  {d \in {documents[i].data : i \in 1..Len(documents)} :
     ~filters.given \/ \A f \in DOMAIN filters.obj : d[f] = filters.obj[f]}

CreatesSocket == \E s \in ClientSockets : wsState[s] = "none" /\ wsState'[s] # "none"

\* a step in which the client schedules a reconnection
SchedulesReconnect == timerCount' > timerCount

\* C37: the reconnect-attempt counter stays within 0..maxReconnectAttempts, it
\* goes down only at a successful open and then to 0, and a reconnection is
\* scheduled only while fewer than maxReconnectAttempts attempts have been made
\* since the last successful open, each one counted
C37_ReconnectBounded ==
  [][ /\ reconnectAttempts \in 0..maxReconnectAttempts
      /\ reconnectAttempts' \in 0..maxReconnectAttempts
      /\ reconnectAttempts' < reconnectAttempts
           => clientLast'.op = "open" /\ reconnectAttempts' = 0
      /\ SchedulesReconnect
           => /\ reconnectAttempts < maxReconnectAttempts
              /\ reconnectAttempts' = reconnectAttempts + 1
      /\ (reconnectAttempts = maxReconnectAttempts /\ clientLast'.op = "close")
           => ~SchedulesReconnect /\ timers' = timers ]_vars

\* C37: a socket has closed unintended after maxReconnectAttempts attempts
\* without an open, and no timer is left
C37_Witness ==
  /\ clientLast.op = "close"
  /\ ~intentionallyClosed
  /\ reconnectAttempts = maxReconnectAttempts
  /\ timers = {}
  /\ \A s \in ClientSockets : wsState[s] \in {"none", "closed"}
  /\ NextSocket = maxReconnectAttempts + 2

\* C38: once disconnect() has returned, no step creates a socket or schedules
\* a reconnection until connect() is called
C38_DisconnectFinal ==
  [][ (clientLast.disconnected /\ clientLast'.op # "connect")
        => (~CreatesSocket /\ ~SchedulesReconnect) ]_vars

\* a socket that is connecting or open
LiveSocket(s) == wsState[s] \in {"connecting", "open"}

\* C39: never more than one socket of the client is connecting or open
C39_OneLiveSocket == Cardinality({s \in ClientSockets : LiveSocket(s)}) <= 1

====
